---- MODULE Spec2Model ----
(***************************************************************************)
(* Permit document extraction and compliance status engine of the DepEd    *)
(* school permit system.                                                   *)
(*                                                                         *)
(* Conventions.                                                            *)
(*  - A JavaScript string is a sequence of one-character strings.          *)
(*  - A JavaScript number that may be NaN or null is a sequence: <<>> for  *)
(*    NaN / null and <<n>> for the number n.                               *)
(*  - A Date is its time value counted in hours (the code counts           *)
(*    milliseconds; every instant of the model is a whole hour), in a zone *)
(*    with a fixed UTC offset, so that local midnight is a multiple of 24. *)
(***************************************************************************)
EXTENDS Integers, Sequences, FiniteSets, TLC

VARIABLES clock, permits, last, fresh, doc, out, db, geo

vars == <<clock, permits, last, fresh, doc, out, db, geo>>

(***************************************************************************)
(* Bounds                                                                  *)
(***************************************************************************)
MaxPermits == 2

MaxPages == 2

MaxLines == 2

MaxSchools == 1

MaxRows == 2

(***************************************************************************)
(* String primitives (String.prototype.trim / split, parseInt)             *)
(***************************************************************************)
Hyphen == "-"

EnDash == "u2013"

Digit == {"0", "1", "2", "3", "4", "5", "6", "7", "8", "9"}

DigitVal(c) ==
  CASE c = "0" -> 0 [] c = "1" -> 1 [] c = "2" -> 2 [] c = "3" -> 3
    [] c = "4" -> 4 [] c = "5" -> 5 [] c = "6" -> 6 [] c = "7" -> 7
    [] c = "8" -> 8 [] c = "9" -> 9

\* \s
WhiteSpace == {" ", "\t", "\n", "\r", "\f"}

IsSpace(c) == c \in WhiteSpace

\* the absent value (null / undefined) where a string is expected
Null == <<"null">>

\* values that are not strings: null / undefined, the numbers 0 and 42, an
\* object
NonStrings == {Null, <<"number 0">>, <<"number 42">>, <<"object">>}

\* !v
Falsy(v) == v \in {<<>>, Null, <<"number 0">>}

\* the outcome of a call that throws a TypeError
TypeError == <<"TypeError">>

\* NaN, and null where a number is expected
NaN == <<>>

isNaN(n) == n = <<>>

\* an absent Date argument; a given one is <<t>>
NoDate == <<>>

RECURSIVE trimStart(_)
trimStart(s) ==
  IF s # <<>> /\ IsSpace(Head(s)) THEN trimStart(Tail(s)) ELSE s

RECURSIVE trimEnd(_)
trimEnd(s) ==
  IF s # <<>> /\ IsSpace(s[Len(s)]) THEN trimEnd(SubSeq(s, 1, Len(s) - 1)) ELSE s

trim(s) == trimEnd(trimStart(s))

RECURSIVE digitsPrefix(_)
digitsPrefix(s) ==
  IF s # <<>> /\ Head(s) \in Digit THEN <<Head(s)>> \o digitsPrefix(Tail(s)) ELSE <<>>

RECURSIVE decimalValue(_, _)
decimalValue(s, acc) ==
  IF s = <<>> THEN acc ELSE decimalValue(Tail(s), 10 * acc + DigitVal(Head(s)))

\* parseInt(s, 10): leading white space, an optional sign, the longest run of
\* digits; NaN when there is no digit
parseInt(s) ==
  LET t == trimStart(s)
      signed == t # <<>> /\ Head(t) \in {"-", "+"}
      u == IF signed THEN Tail(t) ELSE t
      d == digitsPrefix(u)
  IN  IF d = <<>> THEN NaN
      ELSE IF signed /\ Head(t) = "-" THEN <<0 - decimalValue(d, 0)>>
      ELSE <<decimalValue(d, 0)>>

\* s.split(separator): the pieces of s between the separator characters
RECURSIVE split(_, _)
split(s, seps) ==
  IF \E i \in 1..Len(s) : s[i] \in seps
  THEN LET i == CHOOSE k \in 1..Len(s) :
                  s[k] \in seps /\ \A j \in 1..(k - 1) : s[j] \notin seps
       IN  <<SubSeq(s, 1, i - 1)>> \o split(SubSeq(s, i + 1, Len(s)), seps)
  ELSE <<s>>

(***************************************************************************)
(* Characters                                                              *)
(***************************************************************************)
Lowers ==
  <<"a", "b", "c", "d", "e", "f", "g", "h", "i", "j", "k", "l", "m",
    "n", "o", "p", "q", "r", "s", "t", "u", "v", "w", "x", "y", "z">>

Uppers ==
  <<"A", "B", "C", "D", "E", "F", "G", "H", "I", "J", "K", "L", "M",
    "N", "O", "P", "Q", "R", "S", "T", "U", "V", "W", "X", "Y", "Z">>

\* [A-Z] under the i flag
Letter == {Lowers[i] : i \in 1..26} \cup {Uppers[i] : i \in 1..26}

toUpperCase(c) ==
  IF \E i \in 1..26 : Lowers[i] = c
  THEN Uppers[CHOOSE i \in 1..26 : Lowers[i] = c] ELSE c

toLowerCase(c) ==
  IF \E i \in 1..26 : Uppers[i] = c
  THEN Lowers[CHOOSE i \in 1..26 : Uppers[i] = c] ELSE c

\* \w
WordChar == Letter \cup Digit \cup {"_"}

\* the characters of [\x00-\x08\x0B-\x0C\x0E-\x1F] the model writes
ControlChars == {"u0000", "\f", "u001F"}

(***************************************************************************)
(* Regular expressions: a backtracking matcher with the priorities of the  *)
(* JavaScript engine (alternatives left to right, greedy quantifiers the   *)
(* longest first, lazy ones the shortest first)                            *)
(***************************************************************************)
\* no upper limit of a quantifier
Inf == 0 - 1

\* [...] and [^...]
Set(cs) == [t |-> "set", cs |-> cs]

NotSet(cs) == [t |-> "not", cs |-> cs]

\* a sequence and an alternation
SeqOf(xs) == [t |-> "seq", xs |-> xs]

Alt(xs) == [t |-> "alt", xs |-> xs]

\* x{lo,hi}, greedy and lazy; * is {0,Inf}, + is {1,Inf}, ? is {0,1}
Rep(x, lo, hi) == [t |-> "rep", x |-> x, min |-> lo, max |-> hi, greedy |-> TRUE]

Lazy(x, lo, hi) == [t |-> "rep", x |-> x, min |-> lo, max |-> hi, greedy |-> FALSE]

\* the capture group number g
Cap(g, x) == [t |-> "cap", g |-> g, x |-> x]

\* (?=x)
Look(x) == [t |-> "look", x |-> x]

\* ^ without the m flag
Bol == [t |-> "bol"]

\* $ without the m flag
Eol == [t |-> "eol"]

\* \b
WordBoundary == [t |-> "wb"]

\* a literal under the i flag: the characters accepted at each position
LitI(s) ==
  [t |-> "lit", cs |-> [i \in 1..Len(s) |-> {toLowerCase(s[i]), toUpperCase(s[i])}]]

NoCaps == [g \in 1..3 |-> <<0, 0>>]

Fail == [ok |-> FALSE, index |-> 0, end |-> 0, caps |-> NoCaps]

IsWordAt(text, pos) == pos >= 1 /\ pos <= Len(text) /\ text[pos] \in WordChar

\* a one-character node accepts the character c
Accepts(n, c) == IF n.t = "set" THEN c \in n.cs ELSE c \notin n.cs

\* the length of the longest run of characters from pos that the
\* one-character node n accepts, at most max when max is finite
RunLength(n, max, pos, text) ==
  LET avail == Len(text) - pos + 1
      limit == IF max = Inf \/ max > avail THEN avail ELSE max
  IN  CHOOSE k \in 0..limit :
        /\ \A j \in 0..(k - 1) : Accepts(n, text[pos + j])
        /\ k = limit \/ ~Accepts(n, text[pos + k])

\* of the attempts <<k, result>> that succeeded, the one the engine finds
\* first: that of the largest k (longest) or of the smallest k
Chosen(oks, longest) ==
  IF oks = {} THEN Fail
  ELSE LET a == IF longest THEN CHOOSE x \in oks : \A y \in oks : y[1] <= x[1]
                ELSE CHOOSE x \in oks : \A y \in oks : x[1] <= y[1]
       IN  [ok |-> TRUE, index |-> a[1], end |-> a[2].end, caps |-> a[2].caps]

\* match the nodes of stack one after the other from position pos; the
\* result is that of the first successful path in the backtracking order
RECURSIVE Match(_, _, _, _)
Match(stack, pos, caps, text) ==
  IF Len(stack) = 0 THEN [ok |-> TRUE, index |-> 0, end |-> pos, caps |-> caps]
  ELSE LET n == Head(stack)
           rest == Tail(stack)
       IN CASE n.t = "set" ->
                 IF pos <= Len(text) /\ text[pos] \in n.cs
                 THEN Match(rest, pos + 1, caps, text) ELSE Fail
            [] n.t = "not" ->
                 IF pos <= Len(text) /\ text[pos] \notin n.cs
                 THEN Match(rest, pos + 1, caps, text) ELSE Fail
            [] n.t = "lit" ->
                 IF /\ pos + Len(n.cs) - 1 <= Len(text)
                    /\ \A i \in 1..Len(n.cs) : text[pos + i - 1] \in n.cs[i]
                 THEN Match(rest, pos + Len(n.cs), caps, text) ELSE Fail
            [] n.t = "seq" -> Match(n.xs \o rest, pos, caps, text)
            [] n.t = "alt" ->
                 IF Len(n.xs) = 0 THEN Fail
                 ELSE LET r == Match(<<Head(n.xs)>> \o rest, pos, caps, text)
                      IN  IF r.ok THEN r
                          ELSE Match(<<Alt(Tail(n.xs))>> \o rest, pos, caps, text)
            [] n.t = "rep" /\ n.x.t \in {"set", "not"} ->
                 \* a quantified character class: of the run lengths after
                 \* which the rest matches, the longest (greedy) or the
                 \* shortest (lazy) is the first the engine finds
                 Chosen({a \in {<<k, Match(rest, pos + k, caps, text)>> :
                                  k \in n.min..RunLength(n.x, n.max, pos, text)} :
                           a[2].ok},
                        n.greedy)
            [] n.t = "rep" /\ n.x.t \notin {"set", "not"} ->
                 LET fewer == [n EXCEPT !.min = IF n.min > 0 THEN n.min - 1 ELSE 0,
                                        !.max = IF n.max = Inf THEN Inf ELSE n.max - 1]
                     more == <<n.x, fewer>> \o rest
                 IN  IF n.min > 0 THEN Match(more, pos, caps, text)
                     ELSE IF n.max = 0 THEN Match(rest, pos, caps, text)
                     ELSE IF n.greedy
                     THEN LET r == Match(more, pos, caps, text)
                          IN  IF r.ok THEN r ELSE Match(rest, pos, caps, text)
                     ELSE LET r == Match(rest, pos, caps, text)
                          IN  IF r.ok THEN r ELSE Match(more, pos, caps, text)
            [] n.t = "cap" ->
                 Match(<<n.x, [t |-> "close", g |-> n.g, s |-> pos]>> \o rest,
                       pos, caps, text)
            [] n.t = "close" ->
                 Match(rest, pos, [caps EXCEPT ![n.g] = <<n.s, pos>>], text)
            [] n.t = "look" ->
                 IF Match(<<n.x>>, pos, caps, text).ok
                 THEN Match(rest, pos, caps, text) ELSE Fail
            [] n.t = "bol" ->
                 IF pos = 1 THEN Match(rest, pos, caps, text) ELSE Fail
            [] n.t = "eol" ->
                 IF pos = Len(text) + 1 THEN Match(rest, pos, caps, text) ELSE Fail
            [] n.t = "wb" ->
                 IF IsWordAt(text, pos - 1) # IsWordAt(text, pos)
                 THEN Match(rest, pos, caps, text) ELSE Fail

\* re.exec(text) with lastIndex = start - 1: the leftmost position from
\* which the expression matches; index and end are 1-based, end exclusive
exec(re, text, start) ==
  Chosen({a \in {<<p, Match(<<re>>, p, NoCaps, text)>> :
                   p \in start..(Len(text) + 1)} :
            a[2].ok},
         FALSE)

\* re.test(text)
test(re, text) ==
  \E p \in 1..(Len(text) + 1) : Match(<<re>>, p, NoCaps, text).ok

\* match[g]; the empty string stands for undefined
Group(text, m, g) == SubSeq(text, m.caps[g][1], m.caps[g][2] - 1)

\* the expansion of a replacement string: "$1" is the first group, any
\* other element is a character
RECURSIVE expand(_, _, _)
expand(template, text, m) ==
  IF template = <<>> THEN <<>>
  ELSE (IF Head(template) = "$1" THEN Group(text, m, 1) ELSE <<Head(template)>>)
         \o expand(Tail(template), text, m)

\* the rest of text.replace(re, template) from position start, m being
\* the next match (none of the expressions matches the empty string)
RECURSIVE replaceFrom(_, _, _, _, _)
replaceFrom(text, re, template, start, m) ==
  IF ~m.ok THEN SubSeq(text, start, Len(text))
  ELSE SubSeq(text, start, m.index - 1) \o expand(template, text, m)
         \o replaceFrom(text, re, template, m.end, exec(re, text, m.end))

\* text.replace(re, template) for a g-flag regular expression
replace(text, re, template) ==
  replaceFrom(text, re, template, 1, exec(re, text, 1))

Min(a, b) == IF a < b THEN a ELSE b

Max(a, b) == IF a > b THEN a ELSE b

\* t.substring(a, b): 0-based, b exclusive, both clamped to the string
substring(t, a, b) ==
  LET ca == Max(0, Min(a, Len(t)))
      cb == Max(0, Min(b, Len(t)))
  IN  SubSeq(t, Min(ca, cb) + 1, Max(ca, cb))

\* [...new Set(a)]: the first occurrence of each element, in order
RECURSIVE uniq(_)
uniq(a) ==
  IF a = <<>> THEN <<>>
  ELSE LET init == uniq(SubSeq(a, 1, Len(a) - 1))
       IN  IF \E i \in 1..Len(init) : init[i] = a[Len(a)] THEN init
           ELSE Append(init, a[Len(a)])

includes(a, x) == \E i \in 1..Len(a) : a[i] = x

(***************************************************************************)
(* Dates                                                                   *)
(***************************************************************************)
msPerDay == 24

LeapsThrough(y) == (y \div 4) - (y \div 100) + (y \div 400)

\* days from 1970-01-01 to January 1 of year y
DaysBeforeYear(y) == 365 * (y - 1970) + LeapsThrough(y - 1) - LeapsThrough(1969)

\* new Date(year, 11, 31): local midnight of December 31; a year in 0..99
\* is taken as 1900 + year
DateDec31(year) ==
  LET full == IF year >= 0 /\ year <= 99 THEN 1900 + year ELSE year
  IN  msPerDay * (DaysBeforeYear(full + 1) - 1)

\* d.setHours(0, 0, 0, 0)
setHoursZero(t) == t - (t % msPerDay)

(***************************************************************************)
(* Status labels                                                           *)
(***************************************************************************)
Unknown == "Unknown"

InvalidSY == "Invalid SY"

Operating == "Operating"

Operational == "Operational"

ExpiringSoon == "Expiring Soon"

ForRenewal == "For Renewal"

Closed == "Closed"

NoRecords == "No Records"

(***************************************************************************)
(* src/App.vue: getStatus, getOverallSchoolStatus                          *)
(***************************************************************************)
\* the end-year parse at the head of getStatus: null (<<>>) when nothing parses
getStatusEndYear(schoolYear) ==
  LET pieces == split(schoolYear, {Hyphen})
      parts == [i \in 1..Len(pieces) |-> parseInt(trim(pieces[i]))]
  IN  IF Len(parts) = 2 /\ ~isNaN(parts[1]) /\ ~isNaN(parts[2])
      THEN parts[2]
      ELSE LET single == parseInt(trim(schoolYear))
           IN  IF ~isNaN(single) THEN <<single[1] + 1>> ELSE NaN

\* getStatus with the label of the empty input returned for every input
\* without an end year
getStatus_UnknownForInvalid(schoolYear, hostNow) ==
  IF schoolYear = Null \/ schoolYear = <<>> THEN Unknown
  ELSE LET endYear == getStatusEndYear(schoolYear)
       IN  IF endYear = NaN \/ endYear = <<0>> THEN Unknown
           ELSE LET expirationDate == setHoursZero(DateDec31(endYear[1]))
                    now == setHoursZero(hostNow)
                    daysPast == (now - expirationDate) \div msPerDay
                IN  IF daysPast <= 0 THEN Operating
                    ELSE IF daysPast <= 365 THEN ForRenewal
                    ELSE Closed

\* getStatus(schoolYear); hostNow is what new Date() reads during the call
getStatus(schoolYear, hostNow) ==
  IF schoolYear = Null \/ schoolYear = <<>> THEN Unknown
  ELSE LET endYear == getStatusEndYear(schoolYear)
       IN  IF endYear = NaN \/ endYear = <<0>> THEN InvalidSY
           ELSE LET expirationDate == setHoursZero(DateDec31(endYear[1]))
                    now == setHoursZero(hostNow)
                    daysPast == (now - expirationDate) \div msPerDay
                IN  IF daysPast <= 0 THEN Operating
                    ELSE IF daysPast <= 365 THEN ForRenewal
                    ELSE Closed

\* the helper getEndYear inside getOverallSchoolStatus
getEndYear(sy) ==
  IF sy = Null \/ sy = <<>> THEN 0
  ELSE LET pieces == split(sy, {Hyphen})
           parts == [i \in 1..Len(pieces) |-> parseInt(trim(pieces[i]))]
       IN  IF Len(parts) = 2 /\ ~isNaN(parts[2]) THEN parts[2][1]
           ELSE LET single == parseInt(trim(sy))
                IN  IF ~isNaN(single) THEN single[1] + 1 ELSE 0

\* Array.prototype.sort is stable; the array is given as records
\* [k |-> sort key, v |-> element] and sorted by ascending k: x is inserted
\* after every element whose key is not greater than its own
RECURSIVE insertSorted(_, _)
insertSorted(x, s) ==
  IF s = <<>> THEN <<x>>
  ELSE IF x.k < Head(s).k THEN <<x>> \o s
  ELSE <<Head(s)>> \o insertSorted(x, Tail(s))

RECURSIVE sort(_)
sort(s) ==
  IF s = <<>> THEN <<>>
  ELSE insertSorted(s[Len(s)], sort(SubSeq(s, 1, Len(s) - 1)))

\* getOverallSchoolStatus with the empty list reported as a closed school
getOverallSchoolStatus_EmptyClosed(ps, hostNow) ==
  IF ps = <<>> THEN Closed
  ELSE LET sorted == sort([i \in 1..Len(ps) |->
                           [k |-> 0 - getEndYear(ps[i].schoolYear), v |-> ps[i]]])
       IN  getStatus(sorted[1].v.schoolYear, hostNow)

getOverallSchoolStatus(ps, hostNow) ==
  IF ps = <<>> THEN NoRecords
  ELSE LET sorted == sort([i \in 1..Len(ps) |->
                           [k |-> 0 - getEndYear(ps[i].schoolYear), v |-> ps[i]]])
       IN  getStatus(sorted[1].v.schoolYear, hostNow)

(***************************************************************************)
(* src/test_status.js: parseSchoolYearEnd, getStatus, hasPermitGap,        *)
(* getOverallSchoolStatus                                                  *)
(***************************************************************************)
parseSchoolYearEnd(schoolYear) ==
  IF schoolYear = Null \/ schoolYear = <<>> THEN NaN
  ELSE LET pieces == split(trim(schoolYear), {Hyphen, EnDash})
           parts == [i \in 1..Len(pieces) |-> trim(pieces[i])]
       IN  IF Len(parts) = 2
           THEN LET start == parseInt(parts[1])
                    end == parseInt(parts[2])
                IN  IF isNaN(start) \/ isNaN(end) THEN NaN
                    ELSE IF Len(parts[2]) = 2 THEN <<2000 + end[1]>>
                    ELSE end
           ELSE LET single == parseInt(trim(schoolYear))
                IN  IF ~isNaN(single) THEN <<single[1] + 1>> ELSE NaN

\* getStatus of test_status.js with the day after the expiration still
\* counted as not expired (daysPast <= 1)
test_getStatus_GraceDay(schoolYear, mockTodayDate, hostNow) ==
  IF schoolYear = Null \/ schoolYear = <<>> THEN Unknown
  ELSE LET endYear == parseSchoolYearEnd(schoolYear)
       IN  IF endYear = NaN \/ endYear = <<0>> THEN InvalidSY
           ELSE LET expirationDate == setHoursZero(DateDec31(endYear[1]))
                    now == setHoursZero(IF mockTodayDate # NoDate
                                        THEN mockTodayDate[1] ELSE hostNow)
                    daysPast == (now - expirationDate) \div msPerDay
                IN  IF daysPast <= 1
                    THEN IF daysPast > -90 THEN ExpiringSoon ELSE Operational
                    ELSE IF daysPast <= 365 THEN ForRenewal
                    ELSE Closed

\* getStatus of test_status.js with the two tiers after the expiration
\* exchanged
test_getStatus_TiersSwapped(schoolYear, mockTodayDate, hostNow) ==
  IF schoolYear = Null \/ schoolYear = <<>> THEN Unknown
  ELSE LET endYear == parseSchoolYearEnd(schoolYear)
       IN  IF endYear = NaN \/ endYear = <<0>> THEN InvalidSY
           ELSE LET expirationDate == setHoursZero(DateDec31(endYear[1]))
                    now == setHoursZero(IF mockTodayDate # NoDate
                                        THEN mockTodayDate[1] ELSE hostNow)
                    daysPast == (now - expirationDate) \div msPerDay
                IN  IF daysPast <= 0
                    THEN IF daysPast > -90 THEN ExpiringSoon ELSE Operational
                    ELSE IF daysPast <= 365 THEN Closed
                    ELSE ForRenewal

\* getStatus(schoolYear, mockTodayDate) of test_status.js; mockTodayDate is
\* NoDate when the argument is absent, else the instant new Date(mockTodayDate)
test_getStatus(schoolYear, mockTodayDate, hostNow) ==
  IF schoolYear = Null \/ schoolYear = <<>> THEN Unknown
  ELSE LET endYear == parseSchoolYearEnd(schoolYear)
       IN  IF endYear = NaN \/ endYear = <<0>> THEN InvalidSY
           ELSE LET expirationDate == setHoursZero(DateDec31(endYear[1]))
                    now == setHoursZero(IF mockTodayDate # NoDate
                                        THEN mockTodayDate[1] ELSE hostNow)
                    daysPast == (now - expirationDate) \div msPerDay
                IN  IF daysPast <= 0
                    THEN IF daysPast > -90 THEN ExpiringSoon ELSE Operational
                    ELSE IF daysPast <= 365 THEN ForRenewal
                    ELSE Closed

\* the parsed end years of the permits, nulls filtered out
RECURSIVE parsedYears(_)
parsedYears(ps) ==
  IF ps = <<>> THEN <<>>
  ELSE LET y == parseSchoolYearEnd(Head(ps).schoolYear)
       IN  (IF y = NaN THEN <<>> ELSE y) \o parsedYears(Tail(ps))

hasPermitGap(ps) ==
  IF ps = <<>> THEN TRUE
  ELSE LET unsorted == parsedYears(ps)
           years == sort([i \in 1..Len(unsorted) |->
                          [k |-> unsorted[i], v |-> unsorted[i]]])
       IN  IF years = <<>> THEN TRUE
           ELSE \E i \in 2..Len(years) : years[i].v - years[i - 1].v > 1

\* getOverallSchoolStatus of test_status.js with the permits sorted by end
\* year ascending, so that the oldest permit is classified
test_getOverallSchoolStatus_Oldest(ps, mockTodayDate, hostNow) ==
  IF ps = <<>> THEN NoRecords
  ELSE IF hasPermitGap(ps) THEN Closed
  ELSE LET yearOrZero(p) == LET y == parseSchoolYearEnd(p.schoolYear)
                            IN  IF y = NaN THEN 0 ELSE y[1]
           sorted == sort([i \in 1..Len(ps) |->
                           [k |-> yearOrZero(ps[i]), v |-> ps[i]]])
       IN  test_getStatus(sorted[1].v.schoolYear, mockTodayDate, hostNow)

test_getOverallSchoolStatus(ps, mockTodayDate, hostNow) ==
  IF ps = <<>> THEN NoRecords
  ELSE IF hasPermitGap(ps) THEN Closed
  ELSE LET yearOrZero(p) == LET y == parseSchoolYearEnd(p.schoolYear)
                            IN  IF y = NaN THEN 0 ELSE y[1]
           sorted == sort([i \in 1..Len(ps) |->
                           [k |-> 0 - yearOrZero(ps[i]), v |-> ps[i]]])
       IN  test_getStatus(sorted[1].v.schoolYear, mockTodayDate, hostNow)

(***************************************************************************)
(* permitParser.js: cleanOCRText                                           *)
(***************************************************************************)
\* the substitutions of cleanOCRText in the order they are applied: the
\* regular expression and its replacement string
cleanTable ==
  << \* /\|/g
    <<Set({"|"}),
      <<"I">>>>,
    \* /\[/g
    <<Set({"["}),
      <<"L">>>>,
    \* /\]/g
    <<Set({"]"}),
      <<"J">>>>,
    \* /\{/g
    <<Set({"{"}),
      <<"(">>>>,
    \* /\}/g
    <<Set({"}"}),
      <<")">>>>,
    \* /([0-9])s(?=\s)/gi
    <<SeqOf(<<Cap(1, Set(Digit)), LitI(<<"s">>), Look(Set(WhiteSpace))>>),
      <<"$1">>>>,
    \* /([a-z])0/gi
    <<SeqOf(<<Cap(1, Set(Letter)), Set({"0"})>>),
      <<"$1", "o">>>>,
    \* /0([a-z])/gi
    <<SeqOf(<<Set({"0"}), Cap(1, Set(Letter))>>),
      <<"o", "$1">>>>,
    \* /GOVERN\s*MENT/gi
    <<SeqOf(<<LitI(<<"G", "O", "V", "E", "R", "N">>), Rep(Set(WhiteSpace), 0,
        Inf), LitI(<<"M", "E", "N", "T">>)>>),
      <<"G", "O", "V", "E", "R", "N", "M", "E", "N", "T">>>>,
    \* /DEPART\s*MENT/gi
    <<SeqOf(<<LitI(<<"D", "E", "P", "A", "R", "T">>), Rep(Set(WhiteSpace), 0,
        Inf), LitI(<<"M", "E", "N", "T">>)>>),
      <<"D", "E", "P", "A", "R", "T", "M", "E", "N", "T">>>>,
    \* /l{3}/g
    <<Rep(Set({"l"}), 3, 3),
      <<"I", "I", "I">>>>,
    \* /[\x00-\x08\x0B-\x0C\x0E-\x1F]/g
    <<Set(ControlChars),
      <<>>>>>>

RECURSIVE applyTable(_, _)
applyTable(text, table) ==
  IF table = <<>> THEN text
  ELSE applyTable(replace(text, Head(table)[1], Head(table)[2]), Tail(table))

\* text.replace is not a function when text is no string
cleanOCRText(text) ==
  IF Falsy(text) THEN <<>>
  ELSE IF text \in NonStrings THEN TypeError
  ELSE applyTable(text, cleanTable)

(***************************************************************************)
(* permitParser.js: detectStrands, extractPermitDetails                    *)
(***************************************************************************)
\* the tests of detectStrands in order: the regular expression and the
\* strand pushed when it matches
strandTable ==
  << \* /STEM|Science,? Technology,? Engineering,? (?:and|&) Mathematics/i
    <<Alt(<<LitI(<<"S", "T", "E", "M">>), SeqOf(<<LitI(<<"S", "c", "i", "e",
        "n", "c", "e">>), Rep(Set({","}), 0, 1), LitI(<<" ", "T", "e", "c",
        "h", "n", "o", "l", "o", "g", "y">>), Rep(Set({","}), 0, 1),
        LitI(<<" ", "E", "n", "g", "i", "n", "e", "e", "r", "i", "n", "g">>),
        Rep(Set({","}), 0, 1), Set({" "}), Alt(<<LitI(<<"a", "n", "d">>),
        Set({"&"})>>), LitI(<<" ", "M", "a", "t", "h", "e", "m", "a", "t",
        "i", "c", "s">>)>>)>>),
      "STEM">>,
    \* /ABM|Accountancy,? Business,? (?:and|&) Management/i
    <<Alt(<<LitI(<<"A", "B", "M">>), SeqOf(<<LitI(<<"A", "c", "c", "o", "u",
        "n", "t", "a", "n", "c", "y">>), Rep(Set({","}), 0, 1), LitI(<<" ",
        "B", "u", "s", "i", "n", "e", "s", "s">>), Rep(Set({","}), 0, 1),
        Set({" "}), Alt(<<LitI(<<"a", "n", "d">>), Set({"&"})>>), LitI(<<" ",
        "M", "a", "n", "a", "g", "e", "m", "e", "n", "t">>)>>)>>),
      "ABM">>,
    \* /HUMSS|Humanities (?:and|&) Social Sciences/i
    <<Alt(<<LitI(<<"H", "U", "M", "S", "S">>), SeqOf(<<LitI(<<"H", "u", "m",
        "a", "n", "i", "t", "i", "e", "s", " ">>), Alt(<<LitI(<<"a", "n",
        "d">>), Set({"&"})>>), LitI(<<" ", "S", "o", "c", "i", "a", "l", " ",
        "S", "c", "i", "e", "n", "c", "e", "s">>)>>)>>),
      "HUMSS">>,
    \* /GAS|General Academic/i
    <<Alt(<<LitI(<<"G", "A", "S">>), LitI(<<"G", "e", "n", "e", "r", "a", "l",
        " ", "A", "c", "a", "d", "e", "m", "i", "c">>)>>),
      "GAS">>,
    \* /TVL|Technical[- ]Vocational[- ]Livelihood/i
    <<Alt(<<LitI(<<"T", "V", "L">>), SeqOf(<<LitI(<<"T", "e", "c", "h", "n",
        "i", "c", "a", "l">>), Set({"-", " "}), LitI(<<"V", "o", "c", "a",
        "t", "i", "o", "n", "a", "l">>), Set({"-", " "}), LitI(<<"L", "i",
        "v", "e", "l", "i", "h", "o", "o", "d">>)>>)>>),
      "TVL">>,
    \* /Sports/i
    <<LitI(<<"S", "p", "o", "r", "t", "s">>),
      "Sports">>,
    \* /Arts (?:and|&) Design/i
    <<SeqOf(<<LitI(<<"A", "r", "t", "s", " ">>), Alt(<<LitI(<<"a", "n",
        "d">>), Set({"&"})>>), LitI(<<" ", "D", "e", "s", "i", "g", "n">>)>>),
      "Arts and Design">>>>

\* found.push(name) for each row of the table whose expression matches
RECURSIVE pushMatching(_, _)
pushMatching(table, txt) ==
  IF table = <<>> THEN <<>>
  ELSE (IF test(Head(table)[1], txt) THEN <<Head(table)[2]>> ELSE <<>>)
         \o pushMatching(Tail(table), txt)

detectStrands(txt) == pushMatching(strandTable, txt)

Kindergarten == "Kindergarten"

Elementary == "Elementary"

JuniorHigh == "Junior High School"

SeniorHigh == "Senior High School"

\* the if / else-if chain over the prefix of the permit number
prefixLevels(pNum) ==
  \* /^K[-]/i
  IF test(SeqOf(<<Bol, LitI(<<"K">>), Set({"-"})>>), pNum) THEN <<Kindergarten>>
  \* /^E[-]/i
  ELSE IF test(SeqOf(<<Bol, LitI(<<"E">>), Set({"-"})>>), pNum) THEN <<Elementary>>
  \* /^S[-]/i, /^JHS[-]/i
  ELSE IF \/ test(SeqOf(<<Bol, LitI(<<"S">>), Set({"-"})>>), pNum)
          \/ test(SeqOf(<<Bol, LitI(<<"J", "H", "S">>), Set({"-"})>>), pNum)
  THEN <<JuniorHigh>>
  \* /^SHS[-]/i
  ELSE IF test(SeqOf(<<Bol, LitI(<<"S", "H", "S">>), Set({"-"})>>), pNum) THEN <<SeniorHigh>>
  ELSE <<>>

\* the tests of the context window in order
levelTable ==
  << \* /Kindergarten/i
    <<LitI(<<"K", "i", "n", "d", "e", "r", "g", "a", "r", "t", "e", "n">>),
      Kindergarten>>,
    \* /Elementary/i
    <<LitI(<<"E", "l", "e", "m", "e", "n", "t", "a", "r", "y">>),
      Elementary>>,
    \* /Junior\s*High/i
    <<SeqOf(<<LitI(<<"J", "u", "n", "i", "o", "r">>), Rep(Set(WhiteSpace), 0,
        Inf), LitI(<<"H", "i", "g", "h">>)>>),
      JuniorHigh>>,
    \* /Senior\s*High/i
    <<SeqOf(<<LitI(<<"S", "e", "n", "i", "o", "r">>), Rep(Set(WhiteSpace), 0,
        Inf), LitI(<<"H", "i", "g", "h">>)>>),
      SeniorHigh>>>>

contextLevels(context) == pushMatching(levelTable, context)

\* pNum.length > 25
MaxPermitNumberLength == 25

\* match.index - 1000, match.index + 1000
LevelWindow == 1000

\* match.index - 500
StrandWindowBefore == 500

\* match.index + 2000
StrandWindowAfter == 2000

\* t.substring(Math.max(0, match.index - before), match.index + after),
\* index being 1-based
window(t, index, before, after) ==
  substring(t, Max(0, (index - 1) - before), (index - 1) + after)

\* strand detection that runs whatever the levels are
strandsFor_Always(t, index, wanted) ==
  detectStrands(window(t, index, StrandWindowBefore, StrandWindowAfter))

\* wanted ? detectStrands(t.substring(...)) : []
strandsFor(t, index, wanted) ==
  IF wanted THEN detectStrands(window(t, index, StrandWindowBefore, StrandWindowAfter))
  ELSE <<>>

\* the levels of a permit number: its prefix, else the words of the context
levelsFor(fromPrefix, t, index) ==
  IF fromPrefix = <<>>
  THEN contextLevels(window(t, index, LevelWindow, LevelWindow))
  ELSE fromPrefix

\* the end of the loop body of strategies 1 and 2: the length test and
\* permits.push({...})
pushed(t, index, pNum, sYear, levels) ==
  IF Len(pNum) > MaxPermitNumberLength THEN <<>>
  ELSE <<[permitNumber |-> pNum, schoolYear |-> sYear, levels |-> uniq(levels),
          strands |-> strandsFor(t, index, includes(levels, SeniorHigh))]>>

\* /(?:Government\s+Permit|GP|Provisional\s+Permit|Authority\s+to\s+Operate|DepEd\s+Permit)(?:\s*\(.*?\))?[\s:.]+(?:No\.?|Number)?[\s:.]*([A-Z0-9\s-]+)[\s,.]*(?:s\.?|series\s+of)\s*(\d{4}[-–]?\d{0,4})/gi
gpRegex ==
  SeqOf(<<Alt(<<SeqOf(<<LitI(<<"G", "o", "v", "e", "r", "n", "m", "e", "n",
    "t">>), Rep(Set(WhiteSpace), 1, Inf), LitI(<<"P", "e", "r", "m", "i",
    "t">>)>>), LitI(<<"G", "P">>), SeqOf(<<LitI(<<"P", "r", "o", "v", "i",
    "s", "i", "o", "n", "a", "l">>), Rep(Set(WhiteSpace), 1, Inf), LitI(<<"P",
    "e", "r", "m", "i", "t">>)>>), SeqOf(<<LitI(<<"A", "u", "t", "h", "o",
    "r", "i", "t", "y">>), Rep(Set(WhiteSpace), 1, Inf), LitI(<<"t", "o">>),
    Rep(Set(WhiteSpace), 1, Inf), LitI(<<"O", "p", "e", "r", "a", "t",
    "e">>)>>), SeqOf(<<LitI(<<"D", "e", "p", "E", "d">>), Rep(Set(WhiteSpace),
    1, Inf), LitI(<<"P", "e", "r", "m", "i", "t">>)>>)>>),
    Rep(SeqOf(<<Rep(Set(WhiteSpace), 0, Inf), Set({"("}), Lazy(NotSet({"\n",
    "\r"}), 0, Inf), Set({")"})>>), 0, 1), Rep(Set(WhiteSpace \cup {":",
    "."}), 1, Inf), Rep(Alt(<<SeqOf(<<LitI(<<"N", "o">>), Rep(Set({"."}), 0,
    1)>>), LitI(<<"N", "u", "m", "b", "e", "r">>)>>), 0, 1),
    Rep(Set(WhiteSpace \cup {":", "."}), 0, Inf), Cap(1,
    Rep(Set(Letter \cup Digit \cup WhiteSpace \cup {"-"}), 1, Inf)),
    Rep(Set(WhiteSpace \cup {",", "."}), 0, Inf), Alt(<<SeqOf(<<LitI(<<"s">>),
    Rep(Set({"."}), 0, 1)>>), SeqOf(<<LitI(<<"s", "e", "r", "i", "e", "s">>),
    Rep(Set(WhiteSpace), 1, Inf), LitI(<<"o", "f">>)>>)>>),
    Rep(Set(WhiteSpace), 0, Inf), Cap(2, SeqOf(<<Rep(Set(Digit), 4, 4),
    Rep(Set({"-", "u2013"}), 0, 1), Rep(Set(Digit), 0, 4)>>))>>)

\* the body of the loop of strategy 1 for the match m: the permits pushed
gpPermit(t, m) ==
  pushed(t, m.index, trim(Group(t, m, 1)), trim(Group(t, m, 2)),
         levelsFor(prefixLevels(trim(Group(t, m, 1))), t, m.index))

\* /Government\s+Recognition(?:\s*\(.*?\))?[\s:.]+(?:No\.?|Number)?[\s:.]*([A-Z0-9\s-]+)?[\s,.]*(?:s\.?|series\s+of)\s*(\d{4}[-–]?\d{0,4})/gi
grRegex ==
  SeqOf(<<LitI(<<"G", "o", "v", "e", "r", "n", "m", "e", "n", "t">>),
    Rep(Set(WhiteSpace), 1, Inf), LitI(<<"R", "e", "c", "o", "g", "n", "i",
    "t", "i", "o", "n">>), Rep(SeqOf(<<Rep(Set(WhiteSpace), 0, Inf),
    Set({"("}), Lazy(NotSet({"\n", "\r"}), 0, Inf), Set({")"})>>), 0, 1),
    Rep(Set(WhiteSpace \cup {":", "."}), 1, Inf),
    Rep(Alt(<<SeqOf(<<LitI(<<"N", "o">>), Rep(Set({"."}), 0, 1)>>),
    LitI(<<"N", "u", "m", "b", "e", "r">>)>>), 0, 1),
    Rep(Set(WhiteSpace \cup {":", "."}), 0, Inf), Rep(Cap(1,
    Rep(Set(Letter \cup Digit \cup WhiteSpace \cup {"-"}), 1, Inf)), 0, 1),
    Rep(Set(WhiteSpace \cup {",", "."}), 0, Inf), Alt(<<SeqOf(<<LitI(<<"s">>),
    Rep(Set({"."}), 0, 1)>>), SeqOf(<<LitI(<<"s", "e", "r", "i", "e", "s">>),
    Rep(Set(WhiteSpace), 1, Inf), LitI(<<"o", "f">>)>>)>>),
    Rep(Set(WhiteSpace), 0, Inf), Cap(2, SeqOf(<<Rep(Set(Digit), 4, 4),
    Rep(Set({"-", "u2013"}), 0, 1), Rep(Set(Digit), 0, 4)>>))>>)

\* the body of the loop of strategy 2: match[1] ? match[1].trim() : 'Gov. Rec.'
grPermit(t, m) ==
  pushed(t, m.index,
         IF Group(t, m, 1) # <<>> THEN trim(Group(t, m, 1))
         ELSE <<"G", "o", "v", ".", " ", "R", "e", "c", ".">>,
         Group(t, m, 2),
         contextLevels(window(t, m.index, LevelWindow, LevelWindow)))

\* /\b(K|E|JHS|SHS|S)\s*[-]?\s*(\d{2,5})\s*[,.]?\s*(?:s\.?|series\s+of)?\s*(\d{4}[-–]?\d{0,4})\b/gi
directRegex ==
  SeqOf(<<WordBoundary, Cap(1, Alt(<<LitI(<<"K">>), LitI(<<"E">>), LitI(<<"J",
    "H", "S">>), LitI(<<"S", "H", "S">>), LitI(<<"S">>)>>)),
    Rep(Set(WhiteSpace), 0, Inf), Rep(Set({"-"}), 0, 1), Rep(Set(WhiteSpace),
    0, Inf), Cap(2, Rep(Set(Digit), 2, 5)), Rep(Set(WhiteSpace), 0, Inf),
    Rep(Set({",", "."}), 0, 1), Rep(Set(WhiteSpace), 0, Inf),
    Rep(Alt(<<SeqOf(<<LitI(<<"s">>), Rep(Set({"."}), 0, 1)>>),
    SeqOf(<<LitI(<<"s", "e", "r", "i", "e", "s">>), Rep(Set(WhiteSpace), 1,
    Inf), LitI(<<"o", "f">>)>>)>>), 0, 1), Rep(Set(WhiteSpace), 0, Inf),
    Cap(3, SeqOf(<<Rep(Set(Digit), 4, 4), Rep(Set({"-", "u2013"}), 0, 1),
    Rep(Set(Digit), 0, 4)>>)), WordBoundary>>)

upper(s) == [i \in 1..Len(s) |-> toUpperCase(s[i])]

\* permits.some(p => p.permitNumber === pNum && p.schoolYear === sYear)
somePermit(ps, pNum, sYear) ==
  \E i \in 1..Len(ps) : ps[i].permitNumber = pNum /\ ps[i].schoolYear = sYear

\* the body of the loop of strategy 3 for the match m, ps being the permits
\* pushed so far
directPermit(t, m, ps) ==
  LET matched == upper(Group(t, m, 1))
      prefix == IF matched = <<"S">> /\ Len(Group(t, m, 2)) <= 3
                THEN <<"S", "H", "S">> ELSE matched
      pNum == prefix \o <<"-">> \o Group(t, m, 2)
      sYear == Group(t, m, 3)
      levels == IF prefix = <<"K">> THEN <<Kindergarten>>
                ELSE IF prefix = <<"E">> THEN <<Elementary>>
                ELSE IF prefix = <<"J", "H", "S">> \/ prefix = <<"S">>
                THEN <<JuniorHigh>>
                ELSE <<SeniorHigh>>
  IN  IF somePermit(ps, pNum, sYear) THEN <<>>
      ELSE <<[permitNumber |-> pNum, schoolYear |-> sYear, levels |-> levels,
              strands |-> strandsFor(t, m.index, prefix = <<"S", "H", "S">>)]>>

\* /(?:No\.?|Number)[\s:.]*([A-Z0-9\s-]+)[\s,.]*(?:s\.?|series\s+of)\s*(\d{4})/gi
app_looseRegex ==
  SeqOf(<<Alt(<<SeqOf(<<LitI(<<"N", "o">>), Rep(Set({"."}), 0, 1)>>),
    LitI(<<"N", "u", "m", "b", "e", "r">>)>>), Rep(Set(WhiteSpace \cup {":",
    "."}), 0, Inf), Cap(1,
    Rep(Set(Letter \cup Digit \cup WhiteSpace \cup {"-"}), 1, Inf)),
    Rep(Set(WhiteSpace \cup {",", "."}), 0, Inf), Alt(<<SeqOf(<<LitI(<<"s">>),
    Rep(Set({"."}), 0, 1)>>), SeqOf(<<LitI(<<"s", "e", "r", "i", "e", "s">>),
    Rep(Set(WhiteSpace), 1, Inf), LitI(<<"o", "f">>)>>)>>),
    Rep(Set(WhiteSpace), 0, Inf), Cap(2, Rep(Set(Digit), 4, 4))>>)

\* /\s+/g
reSpaces ==
  Rep(Set(WhiteSpace), 1, Inf)

\* permits.some(p => p.permitNumber === pNum)
someNumber(ps, pNum) == \E i \in 1..Len(ps) : ps[i].permitNumber = pNum

\* the loop body of the loose strategy of App.vue after pNum and sYear
loosePushed(t, index, pNum, sYear, ps) ==
  IF Len(pNum) < 2 \/ Len(pNum) > MaxPermitNumberLength THEN <<>>
  ELSE IF someNumber(ps, pNum) THEN <<>>
  ELSE LET levels == levelsFor(prefixLevels(pNum), t, index)
       IN  <<[permitNumber |-> pNum, schoolYear |-> sYear, levels |-> levels,
              strands |-> strandsFor(t, index, includes(levels, SeniorHigh))]>>

\* the body of the loop of the loose strategy of App.vue
app_loosePermit(t, m, ps) ==
  loosePushed(t, m.index, trim(replace(Group(t, m, 1), reSpaces, <<>>)),
              trim(Group(t, m, 2)), ps)

\* the body of the while loop of a strategy
loopBody(strategy, t, m, ps) ==
  CASE strategy = "gp" -> gpPermit(t, m)
    [] strategy = "gr" -> grPermit(t, m)
    [] strategy = "direct" -> directPermit(t, m, ps)
    [] strategy = "loose" -> app_loosePermit(t, m, ps)

\* while ((match = re.exec(t)) !== null) { ... }: m is the match at hand,
\* ps the permits pushed so far
RECURSIVE whileExec(_, _, _, _, _)
whileExec(re, strategy, t, m, ps) ==
  IF ~m.ok THEN ps
  ELSE whileExec(re, strategy, t, exec(re, t, m.end),
                 ps \o loopBody(strategy, t, m, ps))

\* the key of the seen set: `${p.permitNumber}-${p.schoolYear}`
permitKey(p) == p.permitNumber \o <<"-">> \o p.schoolYear

\* a deduplication that keeps every permit, seen or not
deduplicate_KeepAll(ps, seen) == ps

\* permits.forEach: keep a permit when its key has not been seen
RECURSIVE deduplicate(_, _)
deduplicate(ps, seen) ==
  IF ps = <<>> THEN <<>>
  ELSE IF permitKey(Head(ps)) \in seen THEN deduplicate(Tail(ps), seen)
  ELSE <<Head(ps)>> \o deduplicate(Tail(ps), seen \cup {permitKey(Head(ps))})

\* a working list in which strategy 2 runs before strategy 1
collectPermits_RecognitionFirst(t) ==
  whileExec(directRegex, "direct", t, exec(directRegex, t, 1),
    whileExec(gpRegex, "gp", t, exec(gpRegex, t, 1),
      whileExec(grRegex, "gr", t, exec(grRegex, t, 1), <<>>)))

\* the working list of the cleaned text t before deduplication: strategy 1,
\* then strategy 2, then strategy 3
collectPermits(t) ==
  whileExec(directRegex, "direct", t, exec(directRegex, t, 1),
    whileExec(grRegex, "gr", t, exec(grRegex, t, 1),
      whileExec(gpRegex, "gp", t, exec(gpRegex, t, 1), <<>>)))

extractPermitDetails(text) ==
  IF Falsy(text) THEN <<>>
  ELSE IF text \in NonStrings THEN TypeError
  ELSE deduplicate(collectPermits(cleanOCRText(text)), {})

(***************************************************************************)
(* src/App.vue: extractPermitDetails                                       *)
(***************************************************************************)
\* /(?:Government\s+Permit|GP|Provisional\s+Permit|Authority\s+to\s+Operate|DepEd\s+Permit)(?:\s*\(.*?\))?[\s:.]+(?:No\.?|Number)?[\s:.]*([A-Z0-9\s-]+)[\s,.]*(?:s\.?|series\s+of)\s*(\d{4})/gi
app_gpRegex ==
  SeqOf(<<Alt(<<SeqOf(<<LitI(<<"G", "o", "v", "e", "r", "n", "m", "e", "n",
    "t">>), Rep(Set(WhiteSpace), 1, Inf), LitI(<<"P", "e", "r", "m", "i",
    "t">>)>>), LitI(<<"G", "P">>), SeqOf(<<LitI(<<"P", "r", "o", "v", "i",
    "s", "i", "o", "n", "a", "l">>), Rep(Set(WhiteSpace), 1, Inf), LitI(<<"P",
    "e", "r", "m", "i", "t">>)>>), SeqOf(<<LitI(<<"A", "u", "t", "h", "o",
    "r", "i", "t", "y">>), Rep(Set(WhiteSpace), 1, Inf), LitI(<<"t", "o">>),
    Rep(Set(WhiteSpace), 1, Inf), LitI(<<"O", "p", "e", "r", "a", "t",
    "e">>)>>), SeqOf(<<LitI(<<"D", "e", "p", "E", "d">>), Rep(Set(WhiteSpace),
    1, Inf), LitI(<<"P", "e", "r", "m", "i", "t">>)>>)>>),
    Rep(SeqOf(<<Rep(Set(WhiteSpace), 0, Inf), Set({"("}), Lazy(NotSet({"\n",
    "\r"}), 0, Inf), Set({")"})>>), 0, 1), Rep(Set(WhiteSpace \cup {":",
    "."}), 1, Inf), Rep(Alt(<<SeqOf(<<LitI(<<"N", "o">>), Rep(Set({"."}), 0,
    1)>>), LitI(<<"N", "u", "m", "b", "e", "r">>)>>), 0, 1),
    Rep(Set(WhiteSpace \cup {":", "."}), 0, Inf), Cap(1,
    Rep(Set(Letter \cup Digit \cup WhiteSpace \cup {"-"}), 1, Inf)),
    Rep(Set(WhiteSpace \cup {",", "."}), 0, Inf), Alt(<<SeqOf(<<LitI(<<"s">>),
    Rep(Set({"."}), 0, 1)>>), SeqOf(<<LitI(<<"s", "e", "r", "i", "e", "s">>),
    Rep(Set(WhiteSpace), 1, Inf), LitI(<<"o", "f">>)>>)>>),
    Rep(Set(WhiteSpace), 0, Inf), Cap(2, Rep(Set(Digit), 4, 4))>>)

\* /Government\s+Recognition(?:\s*\(.*?\))?[\s:.]+(?:No\.?|Number)?[\s:.]*([A-Z0-9\s-]+)?[\s,.]*(?:s\.?|series\s+of)\s*(\d{4})/gi
app_grRegex ==
  SeqOf(<<LitI(<<"G", "o", "v", "e", "r", "n", "m", "e", "n", "t">>),
    Rep(Set(WhiteSpace), 1, Inf), LitI(<<"R", "e", "c", "o", "g", "n", "i",
    "t", "i", "o", "n">>), Rep(SeqOf(<<Rep(Set(WhiteSpace), 0, Inf),
    Set({"("}), Lazy(NotSet({"\n", "\r"}), 0, Inf), Set({")"})>>), 0, 1),
    Rep(Set(WhiteSpace \cup {":", "."}), 1, Inf),
    Rep(Alt(<<SeqOf(<<LitI(<<"N", "o">>), Rep(Set({"."}), 0, 1)>>),
    LitI(<<"N", "u", "m", "b", "e", "r">>)>>), 0, 1),
    Rep(Set(WhiteSpace \cup {":", "."}), 0, Inf), Rep(Cap(1,
    Rep(Set(Letter \cup Digit \cup WhiteSpace \cup {"-"}), 1, Inf)), 0, 1),
    Rep(Set(WhiteSpace \cup {",", "."}), 0, Inf), Alt(<<SeqOf(<<LitI(<<"s">>),
    Rep(Set({"."}), 0, 1)>>), SeqOf(<<LitI(<<"s", "e", "r", "i", "e", "s">>),
    Rep(Set(WhiteSpace), 1, Inf), LitI(<<"o", "f">>)>>)>>),
    Rep(Set(WhiteSpace), 0, Inf), Cap(2, Rep(Set(Digit), 4, 4))>>)

\* the working list of the text t, its white space collapsed
app_collectPermits(t) ==
  whileExec(app_looseRegex, "loose", t, exec(app_looseRegex, t, 1),
    whileExec(app_grRegex, "gr", t, exec(app_grRegex, t, 1),
      whileExec(app_gpRegex, "gp", t, exec(app_gpRegex, t, 1), <<>>)))

app_extractPermitDetails(text) ==
  IF Falsy(text) \/ text \in NonStrings \/ trim(text) = <<>> THEN <<>>
  ELSE deduplicate(app_collectPermits(trim(replace(text, reSpaces, <<" ">>))), {})

(***************************************************************************)
(* permitParser.js: extractSchoolInfoFromText                              *)
(***************************************************************************)
\* s.includes(w)
includesText(s, w) ==
  \E i \in 0..(Len(s) - Len(w)) : SubSeq(s, i + 1, i + Len(w)) = w

\* cleanText.split('\n').map(l => l.trim())
trimmedLines(t) ==
  LET pieces == split(t, {"\n"})
  IN  [i \in 1..Len(pieces) |-> trim(pieces[i])]

\* the candidate of strategy 1 or 2 from the match m of its expression: for
\* strategy 1 the test on 'Regional Director' and on the length
matchedName(k, t, m) ==
  IF ~m.ok \/ Group(t, m, 1) = <<>> THEN <<>>
  ELSE IF k = 2 THEN trim(Group(t, m, 1))
  ELSE IF /\ ~includesText(trim(Group(t, m, 1)), <<"R", "e", "g", "i", "o", "n", "a", "l", " ", "D", "i", "r", "e", "c", "t", "o", "r">>)
          /\ Len(trim(Group(t, m, 1))) > 3
  THEN trim(Group(t, m, 1))
  ELSE <<>>

\* the loop of strategy 3 from the line i on (1-based): the line before the
\* first line with the marker (School) or (Name of School) that has one
\* acceptable line before it
RECURSIVE labelledName(_, _)
labelledName(lines, i) ==
  IF i > Len(lines) THEN <<>>
  ELSE IF /\ \/ test(LitI(<<"(", "S", "c", "h", "o", "o", "l", ")">>), lines[i])
             \/ test(LitI(<<"(", "N", "a", "m", "e", " ", "o", "f", " ", "S",
                       "c", "h", "o", "o", "l", ")">>),
                     lines[i])
          /\ i > 1
          /\ Len(lines[i - 1]) > 3
          /\ ~test(SeqOf(<<Bol, LitI(<<"T", "o">>), Eol>>), lines[i - 1])
  THEN lines[i - 1]
  ELSE labelledName(lines, i + 1)

\* const skipWords = [...]
skipWords ==
  {<<"R", "E", "P", "U", "B", "L", "I", "C">>,
   <<"D", "E", "P", "A", "R", "T", "M", "E", "N", "T">>,
   <<"E", "D", "U", "C", "A", "T", "I", "O", "N">>,
   <<"R", "E", "G", "I", "O", "N">>,
   <<"D", "I", "V", "I", "S", "I", "O", "N">>,
   <<"G", "O", "V", "E", "R", "N", "M", "E", "N", "T">>,
   <<"P", "E", "R", "M", "I", "T">>,
   <<"R", "E", "C", "O", "G", "N", "I", "T", "I", "O", "N">>,
   <<"S", "E", "C", "R", "E", "T", "A", "R", "Y">>,
   <<"O", "F", "F", "I", "C", "E">>}

\* the loop of strategy 4 from the line i on (1-based) over the non-empty
\* lines: the first of the first 15 that is upper case with a letter, has no
\* skip word and is longer than 5
RECURSIVE headerName(_, _)
headerName(lines, i) ==
  IF i > Min(Len(lines), 15) THEN <<>>
  ELSE IF /\ lines[i] = upper(lines[i])
          /\ \E j \in 1..Len(lines[i]) : toLowerCase(lines[i][j]) # lines[i][j]
          /\ ~\E w \in skipWords : includesText(lines[i], w)
          /\ Len(lines[i]) > 5
  THEN lines[i]
  ELSE headerName(lines, i + 1)

\* the name the strategy k finds in cleanText, the empty string when none
nameStrategy(k, cleanText) ==
  CASE k = 1 ->
         \* /(?:(?:^|\n)\s*To|(?:^|\n).*?(?:Granted\s+to|Issued\s+to))[:\s]*\n*([A-Z0-9\s.,&'()-]+?)(?:\n+\(School\)|\s+located\s+at|\s+to\s+operate|\s+for\s+the|\n|$)/i
         matchedName(1, cleanText, exec(
           SeqOf(<<Alt(<<SeqOf(<<Alt(<<Bol, Set({"\n"})>>),
             Rep(Set(WhiteSpace), 0, Inf), LitI(<<"T", "o">>)>>),
             SeqOf(<<Alt(<<Bol, Set({"\n"})>>), Lazy(NotSet({"\n", "\r"}), 0,
             Inf), Alt(<<SeqOf(<<LitI(<<"G", "r", "a", "n", "t", "e", "d">>),
             Rep(Set(WhiteSpace), 1, Inf), LitI(<<"t", "o">>)>>),
             SeqOf(<<LitI(<<"I", "s", "s", "u", "e", "d">>),
             Rep(Set(WhiteSpace), 1, Inf), LitI(<<"t", "o">>)>>)>>)>>)>>),
             Rep(Set(WhiteSpace \cup {":"}), 0, Inf), Rep(Set({"\n"}), 0,
             Inf), Cap(1,
             Lazy(Set(Letter \cup Digit \cup WhiteSpace \cup {".", ",", "&",
             "'", "(", ")", "-"}), 1, Inf)), Alt(<<SeqOf(<<Rep(Set({"\n"}), 1,
             Inf), LitI(<<"(", "S", "c", "h", "o", "o", "l", ")">>)>>),
             SeqOf(<<Rep(Set(WhiteSpace), 1, Inf), LitI(<<"l", "o", "c", "a",
             "t", "e", "d">>), Rep(Set(WhiteSpace), 1, Inf), LitI(<<"a",
             "t">>)>>), SeqOf(<<Rep(Set(WhiteSpace), 1, Inf), LitI(<<"t",
             "o">>), Rep(Set(WhiteSpace), 1, Inf), LitI(<<"o", "p", "e", "r",
             "a", "t", "e">>)>>), SeqOf(<<Rep(Set(WhiteSpace), 1, Inf),
             LitI(<<"f", "o", "r">>), Rep(Set(WhiteSpace), 1, Inf),
             LitI(<<"t", "h", "e">>)>>), Set({"\n"}), Eol>>)>>),
           cleanText, 1))
    [] k = 2 ->
         \* /(?:^|\n)\s*The\s+([A-Z0-9\s.,&'()-]+?)\s+(?:located|situated)\s+(?:at|in)/i
         matchedName(2, cleanText, exec(
           SeqOf(<<Alt(<<Bol, Set({"\n"})>>), Rep(Set(WhiteSpace), 0, Inf),
             LitI(<<"T", "h", "e">>), Rep(Set(WhiteSpace), 1, Inf), Cap(1,
             Lazy(Set(Letter \cup Digit \cup WhiteSpace \cup {".", ",", "&",
             "'", "(", ")", "-"}), 1, Inf)), Rep(Set(WhiteSpace), 1, Inf),
             Alt(<<LitI(<<"l", "o", "c", "a", "t", "e", "d">>), LitI(<<"s",
             "i", "t", "u", "a", "t", "e", "d">>)>>), Rep(Set(WhiteSpace), 1,
             Inf), Alt(<<LitI(<<"a", "t">>), LitI(<<"i", "n">>)>>)>>),
           cleanText, 1))
    [] k = 3 -> labelledName(trimmedLines(cleanText), 1)
    [] k = 4 -> headerName(SelectSeq(trimmedLines(cleanText), LAMBDA l : l # <<>>), 1)

\* a cascade in which a later strategy replaces the name of an earlier one
RECURSIVE nameCascade_LastWins(_, _, _)
nameCascade_LastWins(name, k, cleanText) ==
  IF k > 4 THEN name
  ELSE IF nameStrategy(k, cleanText) # <<>>
  THEN nameCascade_LastWins(nameStrategy(k, cleanText), k + 1, cleanText)
  ELSE nameCascade_LastWins(name, k + 1, cleanText)

\* name after the strategies k..4: strategy 1 runs always, each later one
\* under if (!name)
RECURSIVE nameCascade(_, _, _)
nameCascade(name, k, cleanText) ==
  IF k > 4 THEN name
  ELSE IF k = 1 \/ name = <<>>
  THEN nameCascade(nameStrategy(k, cleanText), k + 1, cleanText)
  ELSE nameCascade(name, k + 1, cleanText)

\* prefixMatch && prefixMatch[1] ? prefixMatch[1].trim() : name
afterRole(name, m) ==
  IF m.ok /\ Group(name, m, 1) # <<>> THEN trim(Group(name, m, 1)) ELSE name

\* the cleanup of a found name
cleanupName(name) ==
  IF name = <<>> THEN <<>>
  ELSE replace(
         replace(
           \* /(?:Administrator|Principal|Head|Director)\s+of\s+(?:the\s+)?(.*)/i
           afterRole(name, exec(
             SeqOf(<<Alt(<<LitI(<<"A", "d", "m", "i", "n", "i", "s", "t", "r",
               "a", "t", "o", "r">>), LitI(<<"P", "r", "i", "n", "c", "i",
               "p", "a", "l">>), LitI(<<"H", "e", "a", "d">>), LitI(<<"D",
               "i", "r", "e", "c", "t", "o", "r">>)>>), Rep(Set(WhiteSpace),
               1, Inf), LitI(<<"o", "f">>), Rep(Set(WhiteSpace), 1, Inf),
               Rep(SeqOf(<<LitI(<<"t", "h", "e">>), Rep(Set(WhiteSpace), 1,
               Inf)>>), 0, 1), Cap(1, Rep(NotSet({"\n", "\r"}), 0, Inf))>>),
             name, 1)),
           \* /^Respectfully\s+endorsed\s+to\s+/i
           SeqOf(<<Bol, LitI(<<"R", "e", "s", "p", "e", "c", "t", "f", "u",
             "l", "l", "y">>), Rep(Set(WhiteSpace), 1, Inf), LitI(<<"e", "n",
             "d", "o", "r", "s", "e", "d">>), Rep(Set(WhiteSpace), 1, Inf),
             LitI(<<"t", "o">>), Rep(Set(WhiteSpace), 1, Inf)>>),
           <<>>),
         \* /[,.]+$/
         SeqOf(<<Rep(Set({",", "."}), 1, Inf), Eol>>),
         <<>>)

\* the address strategy: m1 is the match of "located at", m2 that of the
\* "Address" label
matchedAddress(t, m1, m2) ==
  IF m1.ok /\ Group(t, m1, 1) # <<>> THEN trim(Group(t, m1, 1))
  ELSE IF m2.ok /\ Group(t, m2, 1) # <<>> THEN trim(Group(t, m2, 1))
  ELSE <<>>

\* the cleanup of a found address
cleanupAddress(address) ==
  IF address = <<>> THEN <<>>
  ELSE replace(
         replace(address,
           \* /,?\s+(is|was|has|and)$/i
           SeqOf(<<Rep(Set({","}), 0, 1), Rep(Set(WhiteSpace), 1, Inf), Cap(1,
             Alt(<<LitI(<<"i", "s">>), LitI(<<"w", "a", "s">>), LitI(<<"h",
             "a", "s">>), LitI(<<"a", "n", "d">>)>>)), Eol>>),
           <<>>),
         \* /[.,;:]+$/
         SeqOf(<<Rep(Set({".", ",", ";", ":"}), 1, Inf), Eol>>),
         <<>>)

\* the result of extractSchoolInfoFromText for the cleaned text
schoolInfo(cleanText) ==
  [schoolName |-> cleanupName(nameCascade(<<>>, 1, cleanText)),
   address |->
     cleanupAddress(matchedAddress(cleanText,
       \* /(?:located|situated)\s+(?:at|in)\s*[:;]?\s*([^\n]+)/i
       exec(
         SeqOf(<<Alt(<<LitI(<<"l", "o", "c", "a", "t", "e", "d">>),
           LitI(<<"s", "i", "t", "u", "a", "t", "e", "d">>)>>),
           Rep(Set(WhiteSpace), 1, Inf), Alt(<<LitI(<<"a", "t">>), LitI(<<"i",
           "n">>)>>), Rep(Set(WhiteSpace), 0, Inf), Rep(Set({":", ";"}), 0,
           1), Rep(Set(WhiteSpace), 0, Inf), Cap(1, Rep(NotSet({"\n"}), 1,
           Inf))>>),
         cleanText, 1),
       \* /(?:^|\n)\s*(?:Address|Location)\s*[:.]?\s*([^\n]+)/i
       exec(
         SeqOf(<<Alt(<<Bol, Set({"\n"})>>), Rep(Set(WhiteSpace), 0, Inf),
           Alt(<<LitI(<<"A", "d", "d", "r", "e", "s", "s">>), LitI(<<"L", "o",
           "c", "a", "t", "i", "o", "n">>)>>), Rep(Set(WhiteSpace), 0, Inf),
           Rep(Set({":", "."}), 0, 1), Rep(Set(WhiteSpace), 0, Inf), Cap(1,
           Rep(NotSet({"\n"}), 1, Inf))>>),
         cleanText, 1)))]

extractSchoolInfoFromText(text) ==
  IF Falsy(text) THEN [schoolName |-> <<>>, address |-> <<>>]
  ELSE IF text \in NonStrings THEN [thrown |-> TypeError]
  ELSE schoolInfo(cleanOCRText(text))

(***************************************************************************)
(* Inputs: school-year strings as a form field or the extractor stores     *)
(* them, and the instants the host clock and the reference date take       *)
(***************************************************************************)
\* "2024-2025"
SY_2024_2025 == <<"2", "0", "2", "4", "-", "2", "0", "2", "5">>

\* "2025-2026"
SY_2025_2026 == <<"2", "0", "2", "5", "-", "2", "0", "2", "6">>

\* "2025-26"
SY_2025_26 == <<"2", "0", "2", "5", "-", "2", "6">>

\* "2025"
SY_2025 == <<"2", "0", "2", "5">>

\* "2022-2023"
SY_2022_2023 == <<"2", "0", "2", "2", "-", "2", "0", "2", "3">>

\* "abc"
SY_abc == <<"a", "b", "c">>

\* "x-2027"
SY_x_2027 == <<"x", "-", "2", "0", "2", "7">>

\* "2024-x"
SY_2024_x == <<"2", "0", "2", "4", "-", "x">>

\* "2024 – 2025"
SY_2024_endash_2025 == <<"2", "0", "2", "4", " ", "u2013", " ", "2", "0", "2", "5">>

SY_empty == <<>>

SchoolYears ==
  {SY_2024_2025, SY_2025_2026, SY_2025_26, SY_2025, SY_2022_2023, SY_abc,
   SY_x_2027, SY_2024_x, SY_2024_endash_2025, SY_empty, Null}

\* instants in hours since 1970-01-01T00:00; day 20453 is 2025-12-31,
\* day 20818 is 2026-12-31, day 21183 is 2027-12-31
T_2026_02_04 == 20488 * 24

T_2026_10_02_h09 == 20728 * 24 + 9

T_2026_10_03 == 20729 * 24

T_2026_12_31_h23 == 20818 * 24 + 23

T_2027_01_01 == 20819 * 24

T_2027_12_31_h13 == 21183 * 24 + 13

T_2028_01_01 == 21184 * 24

Times ==
  {T_2026_02_04, T_2026_10_02_h09, T_2026_10_03, T_2026_12_31_h23,
   T_2027_01_01, T_2027_12_31_h13, T_2028_01_01}

\* the mockTodayDate argument: absent, or a date
MockDates == {NoDate} \cup {<<t>> : t \in Times}

(***************************************************************************)
(* State: the host clock, the permits of one institution, and the latest   *)
(* classifier call (operation, permit index, reference-date argument, the  *)
(* end year the call parsed, the label it returned); fresh holds while     *)
(* neither the clock nor the permits have changed since that call          *)
(***************************************************************************)
Permit == [schoolYear : SchoolYears]

PermitLists == UNION {[1..n -> Permit] : n \in 0..MaxPermits}

\* f @@ f is f, enumerated once by TLC rather than re-evaluated at each
\* application
Tabulated(f) == f @@ f

\* the classifier functions tabulated over the inputs of the model
getStatusOn ==
  Tabulated([sy \in SchoolYears, t \in Times |-> getStatus(sy, t)])

getStatusEndYearOn ==
  Tabulated([sy \in SchoolYears |->
               IF sy \in {Null, <<>>} THEN NaN ELSE getStatusEndYear(sy)])

getOverallSchoolStatusOn ==
  Tabulated([ps \in PermitLists |-> Tabulated([t \in Times |->
               getOverallSchoolStatus(ps, t)])])

parseSchoolYearEndOn ==
  Tabulated([sy \in SchoolYears |-> parseSchoolYearEnd(sy)])

test_getStatusOn ==
  Tabulated([sy \in SchoolYears, mock \in MockDates, t \in Times |->
               test_getStatus(sy, mock, t)])

test_getOverallSchoolStatusOn ==
  Tabulated([ps \in PermitLists |-> Tabulated([mock \in MockDates, t \in Times |->
               test_getOverallSchoolStatus(ps, mock, t)])])

NoCall == [op |-> "none", idx |-> 0, now |-> NoDate, endYear |-> NaN, result |-> "none"]

NoExtraction == [op |-> "none", permits |-> <<>>]

\* no geocoding service, call or school record
NoGeo == [env |-> "none"]

\* the tables of the server's database before any row is inserted
NoRows == [schools |-> {}, permits |-> {}]

Init ==
  /\ clock \in Times
  /\ permits = <<>>
  /\ last = NoCall
  /\ fresh = FALSE
  /\ doc = <<>>
  /\ out = NoExtraction
  /\ db = NoRows
  /\ geo = NoGeo

\* time passes on the host
Tick ==
  /\ \E t \in Times : t > clock /\ clock' = t
  /\ fresh' = FALSE
  /\ UNCHANGED <<permits, last, doc, out, db, geo>>

\* a permit is added to the institution (schoolPermits.push)
AddPermit ==
  /\ Len(permits) < MaxPermits
  /\ \E sy \in SchoolYears : permits' = Append(permits, [schoolYear |-> sy])
  /\ fresh' = FALSE
  /\ UNCHANGED <<clock, last, doc, out, db, geo>>

\* the permit list renders getStatus(p.schoolYear) for a permit
CallGetStatus ==
  /\ \E i \in 1..Len(permits) :
       last' = [op |-> "getStatus", idx |-> i, now |-> NoDate,
                endYear |-> getStatusEndYearOn[permits[i].schoolYear],
                result |-> getStatusOn[permits[i].schoolYear, clock]]
  /\ fresh' = TRUE
  /\ UNCHANGED <<clock, permits, doc, out, db, geo>>

\* the school card renders getOverallSchoolStatus(group.permits)
CallGetOverallSchoolStatus ==
  /\ last' = [op |-> "getOverallSchoolStatus", idx |-> 0, now |-> NoDate,
              endYear |-> NaN,
              result |-> getOverallSchoolStatusOn[permits][clock]]
  /\ fresh' = TRUE
  /\ UNCHANGED <<clock, permits, doc, out, db, geo>>

\* test_status.js calls getStatus(schoolYear, mockTodayDate)
CallTestGetStatus ==
  /\ \E i \in 1..Len(permits), mock \in MockDates :
       last' = [op |-> "test_getStatus", idx |-> i, now |-> mock,
                endYear |-> parseSchoolYearEndOn[permits[i].schoolYear],
                result |-> test_getStatusOn[permits[i].schoolYear, mock, clock]]
  /\ fresh' = TRUE
  /\ UNCHANGED <<clock, permits, doc, out, db, geo>>

\* test_status.js calls getOverallSchoolStatus(permits, mockTodayDate)
CallTestGetOverallSchoolStatus ==
  /\ \E mock \in MockDates :
       last' = [op |-> "test_getOverallSchoolStatus", idx |-> 0, now |-> mock,
                endYear |-> NaN,
                result |-> test_getOverallSchoolStatusOn[permits][mock, clock]]
  /\ fresh' = TRUE
  /\ UNCHANGED <<clock, permits, doc, out, db, geo>>

Next ==
  \/ Tick
  \/ AddPermit
  \/ CallGetStatus
  \/ CallGetOverallSchoolStatus
  \/ CallTestGetStatus
  \/ CallTestGetOverallSchoolStatus

Spec == Init /\ [][Next]_vars

TypeOK ==
  /\ clock \in Times
  /\ Len(permits) <= MaxPermits
  /\ fresh \in BOOLEAN

(***************************************************************************)
(* Extraction: the recognized text of the pages of one uploaded document   *)
(* is concatenated into doc, and out is the result of the latest           *)
(* extraction from doc                                                     *)
(***************************************************************************)
\* "GP No. K-123 s. 2024"
Page_GP_K123 ==
  <<"G","P"," ","N","o","."," ","K","-","1","2","3"," ","s","."," ","2","0","2","4">>

\* "Government Permit (R-IVA) No. SHS-089, s. 2018"
Page_GP_SHS089 ==
  <<"G","o","v","e","r","n","m","e","n","t"," ","P","e","r","m","i","t"," ","(","R","-","I","V","A",")"," ","N","o","."," ","S","H","S","-","0","8","9",","," ","s","."," ","2","0","1","8">>

\* "Senior High School STEM"
Page_SeniorHigh_STEM ==
  <<"S","e","n","i","o","r"," ","H","i","g","h"," ","S","c","h","o","o","l"," ","S","T","E","M">>

\* "E-55 2024-2025"
Page_Direct_E55 ==
  <<"E","-","5","5"," ","2","0","2","4","-","2","0","2","5">>

\* "No. 123 s. 2024 Kindergarten"
Page_No_123_Kindergarten ==
  <<"N","o","."," ","1","2","3"," ","s","."," ","2","0","2","4"," ","K","i","n","d","e","r","g","a","r","t","e","n">>

\* "Government Recognition No. K-123, s. 2024 Senior High School ABM"
Page_GR_K123_SeniorHigh_ABM ==
  <<"G","o","v","e","r","n","m","e","n","t"," ","R","e","c","o","g","n","i","t","i","o","n"," ","N","o","."," ","K","-","1","2","3",","," ","s","."," ","2","0","2","4"," ","S","e","n","i","o","r"," ","H","i","g","h"," ","S","c","h","o","o","l"," ","A","B","M">>

\* "GP No. E-55-2024 s. 2025"
Page_GP_E55_2024 ==
  <<"G","P"," ","N","o","."," ","E","-","5","5","-","2","0","2","4"," ","s","."," ","2","0","2","5">>

PageTexts ==
  {Page_GP_K123,
   Page_GR_K123_SeniorHigh_ABM,
   Page_GP_SHS089,
   Page_SeniorHigh_STEM,
   Page_Direct_E55,
   Page_No_123_Kindergarten,
   Page_GP_E55_2024}

\* the number of pages read into doc: each page is followed by one space
RECURSIVE pagesIn(_)
pagesIn(d) ==
  IF d = <<>> THEN 0
  ELSE LET p == CHOOSE q \in PageTexts :
                  Len(q) < Len(d) /\ SubSeq(d, 1, Len(q) + 1) = q \o <<" ">>
       IN  1 + pagesIn(SubSeq(d, Len(p) + 2, Len(d)))

InitExtract ==
  /\ clock = T_2026_02_04
  /\ permits = <<>>
  /\ last = NoCall
  /\ fresh = FALSE
  /\ doc = <<>>
  /\ out = NoExtraction
  /\ db = NoRows
  /\ geo = NoGeo

\* onPermitFileChange starts on a new file: fullText = ''
NewUpload ==
  /\ doc # <<>>
  /\ doc' = <<>>
  /\ out' = NoExtraction
  /\ UNCHANGED <<clock, permits, last, fresh, db, geo>>

\* fullText += pageText + ' ', while the pages are being read
ReadPage ==
  /\ out = NoExtraction
  /\ pagesIn(doc) < MaxPages
  /\ \E pageText \in PageTexts : doc' = doc \o pageText \o <<" ">>
  /\ out' = NoExtraction
  /\ UNCHANGED <<clock, permits, last, fresh, db, geo>>

\* extractPermitDetails(fullText) of permitParser.js, once the pages are read
ExtractPermits ==
  /\ out = NoExtraction
  /\ out' = [op |-> "extractPermitDetails", permits |-> extractPermitDetails(doc)]
  /\ UNCHANGED <<clock, permits, last, fresh, doc, db, geo>>

\* extractPermitDetails(fullText) of App.vue, once the pages are read
AppExtractPermits ==
  /\ out = NoExtraction
  /\ out' = [op |-> "app_extractPermitDetails",
             permits |-> app_extractPermitDetails(doc)]
  /\ UNCHANGED <<clock, permits, last, fresh, doc, db, geo>>

NextExtract ==
  \/ NewUpload
  \/ ReadPage
  \/ ExtractPermits
  \/ AppExtractPermits

SpecExtract == InitExtract /\ [][NextExtract]_vars

(***************************************************************************)
(* Direct calls of the exported parser functions: text is the argument, a  *)
(* value that is no string or a text of lines, and out the outcome of the  *)
(* latest call                                                             *)
(***************************************************************************)
\* the lines a text is made of
LineTexts ==
  {\* "To: Regional Director"
   <<"T","o",":"," ","R","e","g","i","o","n","a","l"," ","D","i","r","e","c","t","o","r">>,
   \* "The Regional Director located at Pampanga"
   <<"T","h","e"," ","R","e","g","i","o","n","a","l"," ","D","i","r","e","c","t","o","r"," ","l","o","c","a","t","e","d"," ","a","t"," ","P","a","m","p","a","n","g","a">>,
   \* "is hereby granted to: ABC SCHOOL"
   <<"i","s"," ","h","e","r","e","b","y"," ","g","r","a","n","t","e","d"," ","t","o",":"," ","A","B","C"," ","S","C","H","O","O","L">>,
   \* "(School)"
   <<"(","S","c","h","o","o","l",")">>,
   \* "HOLY ANGEL UNIVERSITY"
   <<"H","O","L","Y"," ","A","N","G","E","L"," ","U","N","I","V","E","R","S","I","T","Y">>,
   \* "The Head of the Abc School located in Angeles City, and"
   <<"T","h","e"," ","H","e","a","d"," ","o","f"," ","t","h","e"," ","A","b","c"," ","S","c","h","o","o","l"," ","l","o","c","a","t","e","d"," ","i","n"," ","A","n","g","e","l","e","s"," ","C","i","t","y",","," ","a","n","d">>,
   \* "a00"
   <<"a","0","0">>,
   \* "G0VERNMENT"
   <<"G","0","V","E","R","N","M","E","N","T">>,
   \* "SY  2024" with two spaces
   <<"S","Y"," "," ","2","0","2","4">>}

\* the number of lines of a text: each line is followed by a line break
RECURSIVE linesIn(_)
linesIn(d) ==
  IF d = <<>> THEN 0
  ELSE LET l == CHOOSE q \in LineTexts :
                  Len(q) < Len(d) /\ SubSeq(d, 1, Len(q) + 1) = q \o <<"\n">>
       IN  1 + linesIn(SubSeq(d, Len(l) + 2, Len(d)))

\* the caller holds a value that is no string
GiveValue ==
  /\ doc = <<>>
  /\ out = NoExtraction
  /\ doc' \in NonStrings
  /\ UNCHANGED <<clock, permits, last, fresh, out, db, geo>>

\* the caller's text grows by a line
WriteLine ==
  /\ doc \notin NonStrings
  /\ out = NoExtraction
  /\ linesIn(doc) < MaxLines
  /\ \E line \in LineTexts : doc' = doc \o line \o <<"\n">>
  /\ UNCHANGED <<clock, permits, last, fresh, out, db, geo>>

\* cleanOCRText(text)
CallCleanOCRText ==
  /\ out = NoExtraction
  /\ out' = [op |-> "cleanOCRText", value |-> cleanOCRText(doc)]
  /\ UNCHANGED <<clock, permits, last, fresh, doc, db, geo>>

\* extractSchoolInfoFromText(text)
CallExtractSchoolInfo ==
  /\ out = NoExtraction
  /\ out' = [op |-> "extractSchoolInfoFromText",
             value |-> extractSchoolInfoFromText(doc)]
  /\ UNCHANGED <<clock, permits, last, fresh, doc, db, geo>>

NextParser ==
  \/ NewUpload
  \/ GiveValue
  \/ WriteLine
  \/ CallCleanOCRText
  \/ CallExtractSchoolInfo

SpecParser == InitExtract /\ [][NextParser]_vars

(***************************************************************************)
(* backend/server.js: the schools and permits tables and the handlers of   *)
(* the trash workflow. A table is the set of its rows; of a row the model  *)
(* keeps the primary key, the foreign key and the deleted and deletedAt    *)
(* columns. deletedAt is NoDate for NULL and <<t>> for the ISO string of   *)
(* the instant t (toISOString is fixed-width UTC, so the strings order as  *)
(* the instants do). A request is served to completion, both of its        *)
(* statements included, before the next one starts. last records the       *)
(* request served latest: the route, its parameters and the rows it        *)
(* addressed as they were when it arrived.                                 *)
(***************************************************************************)
SchoolIds == 1..MaxSchools

PermitIds == 1..MaxRows

Types == {"school", "permit"}

\* the ids a request of the type may name
idsOf(type) == IF type = "school" THEN SchoolIds ELSE PermitIds

\* SELECT ... FROM schools s ... WHERE s.deleted = 0
getSchools(d) == {r \in d.schools : r.deleted = 0}

\* SELECT * FROM permits WHERE deleted = 0
getPermits(d) == {r \in d.permits : r.deleted = 0}

\* SELECT * FROM schools WHERE deleted = 1, SELECT * FROM permits WHERE
\* deleted = 1
getTrash(d) ==
  [schools |-> {r \in d.schools : r.deleted = 1},
   permits |-> {r \in d.permits : r.deleted = 1}]

\* the rows of the item a request names: the school and the permits with
\* its schoolId, or the one permit
addressed(d, type, id) ==
  IF type = "school"
  THEN [schools |-> {r \in d.schools : r.id = id},
        permits |-> {r \in d.permits : r.schoolId = id}]
  ELSE [schools |-> {}, permits |-> {r \in d.permits : r.id = id}]

request(op, type, id, d) ==
  [op |-> op, type |-> type, id |-> id, rows |-> addressed(d, type, id)]

\* UPDATE schools SET deleted = 1, deletedAt = ? without the UPDATE of the
\* permits
softDeleteSchool_SchoolOnly(d, id, now) ==
  [d EXCEPT !.schools =
     {IF r.id = id THEN [r EXCEPT !.deleted = 1, !.deletedAt = now] ELSE r :
        r \in d.schools}]

\* UPDATE permits SET deleted = 1, deletedAt = ? WHERE schoolId = ?, then
\* UPDATE schools SET deleted = 1, deletedAt = ? WHERE id = ?
softDeleteSchool(d, id, now) ==
  [schools |->
     {IF r.id = id THEN [r EXCEPT !.deleted = 1, !.deletedAt = now] ELSE r :
        r \in d.schools},
   permits |->
     {IF r.schoolId = id THEN [r EXCEPT !.deleted = 1, !.deletedAt = now] ELSE r :
        r \in d.permits}]

\* the restore of a school without the UPDATE of its permits
restore_SchoolOnly(d, type, id) ==
  IF type = "school"
  THEN [d EXCEPT !.schools =
          {IF r.id = id THEN [r EXCEPT !.deleted = 0, !.deletedAt = NoDate] ELSE r :
             r \in d.schools}]
  ELSE [d EXCEPT !.permits =
          {IF r.id = id THEN [r EXCEPT !.deleted = 0, !.deletedAt = NoDate] ELSE r :
             r \in d.permits}]

\* type === 'school': UPDATE schools SET deleted = 0, deletedAt = NULL
\* WHERE id = ?, then UPDATE permits SET deleted = 0, deletedAt = NULL WHERE
\* schoolId = ? AND deleted = 1; otherwise UPDATE permits ... WHERE id = ?
restore(d, type, id) ==
  IF type = "school"
  THEN [schools |->
          {IF r.id = id THEN [r EXCEPT !.deleted = 0, !.deletedAt = NoDate] ELSE r :
             r \in d.schools},
        permits |->
          {IF r.schoolId = id /\ r.deleted = 1
             THEN [r EXCEPT !.deleted = 0, !.deletedAt = NoDate] ELSE r :
             r \in d.permits}]
  ELSE [d EXCEPT !.permits =
          {IF r.id = id THEN [r EXCEPT !.deleted = 0, !.deletedAt = NoDate] ELSE r :
             r \in d.permits}]

\* the server has started on an empty database
InitServer ==
  /\ clock = T_2027_01_01
  /\ permits = <<>>
  /\ last = NoCall
  /\ fresh = FALSE
  /\ doc = <<>>
  /\ out = NoExtraction
  /\ db = NoRows
  /\ geo = NoGeo

\* POST /api/schools: INSERT INTO schools (id, ..., deleted) VALUES (?, ...,
\* 0); id is the primary key, and an id in use is answered with status 500
PostSchool ==
  /\ \E id \in SchoolIds :
       /\ \A r \in db.schools : r.id # id
       /\ db' = [db EXCEPT !.schools =
                   @ \cup {[id |-> id, deleted |-> 0, deletedAt |-> NoDate]}]
       /\ last' = request("POST /api/schools", "school", id, db)
  /\ UNCHANGED <<clock, permits, fresh, doc, out, geo>>

\* POST /api/permits: INSERT INTO permits (id, schoolId, ..., deleted) VALUES
\* (?, ?, ..., 0); schoolId is whatever the request body holds
PostPermit ==
  /\ \E id \in PermitIds, schoolId \in SchoolIds :
       /\ \A r \in db.permits : r.id # id
       /\ db' = [db EXCEPT !.permits =
                   @ \cup {[id |-> id, schoolId |-> schoolId, deleted |-> 0,
                            deletedAt |-> NoDate]}]
       /\ last' = request("POST /api/permits", "permit", id, db)
  /\ UNCHANGED <<clock, permits, fresh, doc, out, geo>>

\* DELETE /api/schools/:id with now = new Date().toISOString()
DeleteSchool ==
  /\ \E id \in SchoolIds :
       /\ db' = softDeleteSchool(db, id, <<clock>>)
       /\ last' = request("DELETE /api/schools/:id", "school", id, db)
  /\ UNCHANGED <<clock, permits, fresh, doc, out, geo>>

\* DELETE /api/permits/:id: UPDATE permits SET deleted = 1, deletedAt = ?
\* WHERE id = ?
DeletePermit ==
  /\ \E id \in PermitIds :
       /\ db' = [db EXCEPT !.permits =
                   {IF r.id = id
                      THEN [r EXCEPT !.deleted = 1, !.deletedAt = <<clock>>]
                      ELSE r : r \in db.permits}]
       /\ last' = request("DELETE /api/permits/:id", "permit", id, db)
  /\ UNCHANGED <<clock, permits, fresh, doc, out, geo>>

\* POST /api/restore/:type/:id
PostRestore ==
  /\ \E type \in Types : \E id \in idsOf(type) :
       /\ db' = restore(db, type, id)
       /\ last' = request("POST /api/restore/:type/:id", type, id, db)
  /\ UNCHANGED <<clock, permits, fresh, doc, out, geo>>

\* DELETE /api/trash/:type/:id. type === 'school': DELETE FROM permits WHERE
\* schoolId = ?, then DELETE FROM schools WHERE id = ?; otherwise DELETE
\* FROM permits WHERE id = ?
DeleteTrash ==
  /\ \E type \in Types : \E id \in idsOf(type) :
       /\ db' = IF type = "school"
                THEN [schools |-> {r \in db.schools : r.id # id},
                      permits |-> {r \in db.permits : r.schoolId # id}]
                ELSE [db EXCEPT !.permits = {r \in @ : r.id # id}]
       /\ last' = request("DELETE /api/trash/:type/:id", type, id, db)
  /\ UNCHANGED <<clock, permits, fresh, doc, out, geo>>

\* the days a row stays in the trash before the cleanup removes it
CleanupDays == 15

\* limitDate.setDate(limitDate.getDate() - 15) on the instant now
limitDate(now) == now - CleanupDays * msPerDay

\* deleted = 1 AND deletedAt < ?: a NULL deletedAt compares as not less
olderThan(r, limit) ==
  r.deleted = 1 /\ r.deletedAt # NoDate /\ r.deletedAt[1] < limit

\* the callback of setInterval: DELETE FROM permits WHERE deleted = 1 AND
\* deletedAt < ?, then for each row of SELECT id FROM schools WHERE deleted
\* = 1 AND deletedAt < ?: DELETE FROM permits WHERE schoolId = ? and DELETE
\* FROM schools WHERE id = ?
autoCleanup(d, now) ==
  [schools |-> {r \in d.schools : ~olderThan(r, limitDate(now))},
   permits |->
     {r \in d.permits :
        /\ ~olderThan(r, limitDate(now))
        /\ \A s \in d.schools : olderThan(s, limitDate(now)) => r.schoolId # s.id}]

\* the hourly run of the auto cleanup; last records the tables as they were
\* when it started and the instant of the run
AutoCleanup ==
  /\ db' = autoCleanup(db, clock)
  /\ last' = [op |-> "auto cleanup", now |-> <<clock>>, rows |-> db]
  /\ UNCHANGED <<clock, permits, fresh, doc, out, geo>>

NextServer ==
  \/ Tick
  \/ PostSchool
  \/ PostPermit
  \/ DeleteSchool
  \/ DeletePermit
  \/ PostRestore
  \/ DeleteTrash
  \/ AutoCleanup

SpecServer == InitServer /\ [][NextServer]_vars

(***************************************************************************)
(* backend/services/geoService.js and the two handlers of server.js that   *)
(* write the address of a school. A coordinate is <<"null">> for null,     *)
(* <<"undefined">> for a missing property and <<digits>> for a number; a   *)
(* confidence score is counted in tenths. A JavaScript object is a record, *)
(* and a property it does not have is a field outside its DOMAIN. geo.env  *)
(* is the process environment of the server (the API key) with the answer  *)
(* the geocoding API gives, geo.call the latest call of resolveLocation    *)
(* and geo.school the columns of one row of the schools table.             *)
(***************************************************************************)
Undefined == <<"undefined">>

lower(s) == [i \in 1..Len(s) |-> toLowerCase(s[i])]

createErrorResponse(status, message) ==
  [status |-> status, error |-> message, latitude |-> Null, longitude |-> Null,
   confidence_score |-> 0]

validateInput(schoolName, address) ==
  IF Falsy(schoolName) \/ schoolName \in NonStrings \/ Len(trim(schoolName)) < 3
  THEN [error |-> "Invalid school name"]
  ELSE IF Falsy(address) \/ address \in NonStrings
  THEN [error |-> "Invalid address format"]
  ELSE IF Len(trim(address)) < 10
  THEN [error |-> "Address too short to be precise"]
  ELSE IF ~test(Set(Digit), trim(address))
  THEN [error |-> "Address missing numeric indicators"]
  ELSE [schoolName |-> replace(trim(schoolName), reSpaces, <<" ">>),
        address |-> replace(trim(address), reSpaces, <<" ">>)]

\* a result of the geocoding API with its geometry and types
place(lat, locationType, types) ==
  [geometry |-> [location |-> [lat |-> lat, lng |-> <<"121.123">>],
                 location_type |-> locationType],
   formatted_address |-> "Cabuyao, Laguna",
   types |-> types]

getMockResponse(query) ==
  IF includesText(lower(query), <<"s", "c", "h", "o", "o", "l">>)
  THEN [status |-> "OK",
        results |-> <<place(<<"14.278">>, "ROOFTOP", <<"school", "establishment">>)>>]
  ELSE [status |-> "OK",
        results |-> <<place(<<"14.270">>, "APPROXIMATE", <<"locality", "political">>)>>]

\* the promise of _performLookup: fulfilled with the mock response or with
\* the body the API answers, or rejected (fetch or response.json() fails)
performLookup(env, query) ==
  IF ~env.apiKey THEN [ok |-> TRUE, data |-> getMockResponse(query)]
  ELSE env.answer

validLocationTypes == {"ROOFTOP", "RANGE_INTERPOLATED"}

invalidTypes ==
  {"locality", "administrative_area_level_1", "administrative_area_level_2",
   "country"}

\* the result of _filterAndScore without the test of isGenericRegion
filterAndScore_AnyType(apiResult, query) ==
  IF \/ "status" \notin DOMAIN apiResult
     \/ apiResult.status # "OK"
     \/ "results" \notin DOMAIN apiResult
     \/ Len(apiResult.results) = 0
  THEN createErrorResponse("NO_MATCH", "No results found for query")
  ELSE IF \/ "geometry" \notin DOMAIN apiResult.results[1]
          \/ "types" \notin DOMAIN apiResult.results[1]
  THEN [thrown |-> "TypeError"]
  ELSE IF \/ "location_type" \notin DOMAIN apiResult.results[1].geometry
          \/ apiResult.results[1].geometry.location_type \notin validLocationTypes
  THEN createErrorResponse("LOW_CONFIDENCE", "Location type does not meet precision threshold.")
  ELSE IF "location" \notin DOMAIN apiResult.results[1].geometry
  THEN [thrown |-> "TypeError"]
  ELSE [status |-> "SUCCESS",
        latitude |-> apiResult.results[1].geometry.location.lat,
        longitude |-> apiResult.results[1].geometry.location.lng,
        accuracy |-> apiResult.results[1].geometry.location_type,
        confidence_score |->
          IF apiResult.results[1].geometry.location_type = "ROOFTOP" THEN 10 ELSE 8,
        original_query |-> query]

\* apiResult is null (no "status" in its DOMAIN), or the parsed body
filterAndScore(apiResult, query) ==
  IF \/ "status" \notin DOMAIN apiResult
     \/ apiResult.status # "OK"
     \/ "results" \notin DOMAIN apiResult
     \/ Len(apiResult.results) = 0
  THEN createErrorResponse("NO_MATCH", "No results found for query")
  ELSE IF \/ "geometry" \notin DOMAIN apiResult.results[1]
          \/ "types" \notin DOMAIN apiResult.results[1]
  THEN [thrown |-> "TypeError"]
  ELSE IF \/ "location_type" \notin DOMAIN apiResult.results[1].geometry
          \/ apiResult.results[1].geometry.location_type \notin validLocationTypes
  THEN createErrorResponse("LOW_CONFIDENCE", "Location type does not meet precision threshold.")
  ELSE IF \E i \in 1..Len(apiResult.results[1].types) :
            apiResult.results[1].types[i] \in invalidTypes
  THEN createErrorResponse("LOW_CONFIDENCE", "Result is a generic administrative region, not a specific premise.")
  ELSE IF "location" \notin DOMAIN apiResult.results[1].geometry
  THEN [thrown |-> "TypeError"]
  ELSE [status |-> "SUCCESS",
        latitude |-> apiResult.results[1].geometry.location.lat,
        longitude |-> apiResult.results[1].geometry.location.lng,
        accuracy |-> apiResult.results[1].geometry.location_type,
        confidence_score |->
          IF apiResult.results[1].geometry.location_type = "ROOFTOP" THEN 10 ELSE 8,
        original_query |-> query]

\* the catch of resolveLocation around the lookup and the filter
caught(lookup, query) ==
  IF ~lookup.ok THEN createErrorResponse("SYSTEM_ERROR", "fetch failed")
  ELSE IF "thrown" \in DOMAIN filterAndScore(lookup.data, query)
  THEN createErrorResponse("SYSTEM_ERROR", "TypeError")
  ELSE filterAndScore(lookup.data, query)

\* resolveLocation once the input is validated; lookups counts the calls of
\* _performLookup and answer is what the call gave
resolveValidated(cleanInput, env) ==
  IF "error" \in DOMAIN cleanInput
  THEN [result |-> createErrorResponse("VALIDATION_FAILURE", cleanInput.error),
        lookups |-> 0]
  ELSE [result |->
          caught(performLookup(env, cleanInput.schoolName \o <<",", " ">> \o cleanInput.address),
                 cleanInput.schoolName \o <<",", " ">> \o cleanInput.address),
        lookups |-> 1,
        answer |->
          performLookup(env, cleanInput.schoolName \o <<",", " ">> \o cleanInput.address)]

resolveLocation(schoolName, address, env) ==
  resolveValidated(validateInput(schoolName, address), env)

GeoNames ==
  {Null, <<"number 42">>,
   \* "AB"
   <<"A", "B">>,
   \* "Abc School"
   <<"A", "b", "c", " ", "S", "c", "h", "o", "o", "l">>,
   \* "Holy Angel"
   <<"H", "o", "l", "y", " ", "A", "n", "g", "e", "l">>}

GeoAddresses ==
  {Null, <<"object">>,
   \* "12 Rizal"
   <<"1", "2", " ", "R", "i", "z", "a", "l">>,
   \* "Angeles City"
   <<"A", "n", "g", "e", "l", "e", "s", " ", "C", "i", "t", "y">>,
   \* "12 Rizal St, Angeles"
   <<"1", "2", " ", "R", "i", "z", "a", "l", " ", "S", "t", ",", " ", "A", "n", "g", "e", "l", "e", "s">>,
   \* " 7  Mabini Road"
   <<" ", "7", " ", " ", "M", "a", "b", "i", "n", "i", " ", "R", "o", "a", "d">>}

LocationTypes == {"ROOFTOP", "RANGE_INTERPOLATED", "APPROXIMATE", "GEOMETRIC_CENTER"}

TypeLists ==
  {<<"school", "establishment">>, <<"locality", "political">>,
   <<"premise", "country">>, <<>>}

\* the parsed bodies the geocoding API may answer: null, no match, a body
\* without results, results of each precision and kind, and results that
\* lack a property
ApiResults ==
  {[isNull |-> TRUE],
   [status |-> "ZERO_RESULTS", results |-> <<>>],
   [status |-> "OK"],
   [status |-> "OK", results |-> <<>>],
   [status |-> "OK", results |-> <<[types |-> <<"premise">>]>>],
   [status |-> "OK", results |-> <<[geometry |-> [location_type |-> "ROOFTOP"]]>>],
   [status |-> "OK",
    results |-> <<[geometry |-> [location_type |-> "ROOFTOP"], types |-> <<"premise">>]>>],
   [status |-> "OK", results |-> <<place(Undefined, "ROOFTOP", <<"premise">>)>>],
   [status |-> "OK",
    results |-> <<place(<<"14.270">>, "APPROXIMATE", <<"locality", "political">>),
                  place(<<"14.278">>, "ROOFTOP", <<"school", "establishment">>)>>]}
  \cup {[status |-> "OK", results |-> <<place(<<"14.278">>, lt, ts)>>] :
          lt \in LocationTypes, ts \in TypeLists}

\* process.env.GEOCODING_API_KEY is unset, or set with the API answering or
\* failing
Environments ==
  {[apiKey |-> FALSE]}
    \cup {[apiKey |-> TRUE, answer |-> [ok |-> TRUE, data |-> r]] : r \in ApiResults}
    \cup {[apiKey |-> TRUE, answer |-> [ok |-> FALSE]]}

\* the names and addresses the school form submits
FormNames == {n \in GeoNames \ NonStrings : Len(n) >= 3}

FormAddresses == {a \in GeoAddresses \ NonStrings : Len(a) >= 10}

\* resolveLocation tabulated over the inputs of the model
resolveLocationOn ==
  Tabulated([schoolName \in GeoNames, address \in GeoAddresses, env \in Environments |->
               resolveLocation(schoolName, address, env)])

NoGeoCall == [made |-> FALSE]

NoSchool == [stored |-> FALSE]

\* the columns POST /api/schools inserts for a name and an address
insertedSchool(name, address, geoResult) ==
  IF geoResult.status = "SUCCESS"
  THEN [stored |-> TRUE, name |-> name, address |-> address,
        latitude |-> geoResult.latitude, longitude |-> geoResult.longitude,
        geo_accuracy |-> <<geoResult.accuracy>>, geo_status |-> "VERIFIED"]
  ELSE [stored |-> TRUE, name |-> name, address |-> address,
        latitude |-> Null, longitude |-> Null, geo_accuracy |-> Null,
        geo_status |-> geoResult.status]

\* the server has started in some environment, with no school
InitGeo ==
  /\ clock = T_2027_01_01
  /\ permits = <<>>
  /\ last = NoCall
  /\ fresh = FALSE
  /\ doc = <<>>
  /\ out = NoExtraction
  /\ db = NoRows
  /\ geo \in {[env |-> e, call |-> NoGeoCall, school |-> NoSchool] : e \in Environments}

\* new GeoService().resolveLocation(schoolName, address)
CallResolveLocation ==
  /\ \E schoolName \in GeoNames, address \in GeoAddresses :
       geo' = [geo EXCEPT !.call =
                 [made |-> TRUE, schoolName |-> schoolName, address |-> address]
                   @@ resolveLocationOn[schoolName, address, geo.env]]
  /\ UNCHANGED <<clock, permits, last, fresh, doc, out, db>>

\* POST /api/schools: resolveLocation(name, address), then the INSERT
CreateSchool ==
  /\ ~geo.school.stored
  /\ \E name \in FormNames, address \in FormAddresses :
       geo' = [geo EXCEPT
                 !.call = [made |-> TRUE, schoolName |-> name, address |-> address]
                            @@ resolveLocationOn[name, address, geo.env],
                 !.school = insertedSchool(name, address,
                              resolveLocationOn[name, address, geo.env].result)]
  /\ UNCHANGED <<clock, permits, last, fresh, doc, out, db>>

\* PUT /api/schools/:id: UPDATE schools SET name = ?, type = ?, address = ?
\* WHERE id = ?
UpdateSchool ==
  /\ geo.school.stored
  /\ \E name \in FormNames, address \in FormAddresses :
       geo' = [geo EXCEPT !.call = NoGeoCall,
                          !.school = [@ EXCEPT !.name = name, !.address = address]]
  /\ UNCHANGED <<clock, permits, last, fresh, doc, out, db>>

NextGeo ==
  \/ CallResolveLocation
  \/ CreateSchool
  \/ UpdateSchool

SpecGeo == InitGeo /\ [][NextGeo]_vars

(***************************************************************************)
(* The classifier's contract, stated independently of the code             *)
(***************************************************************************)
IsYYYY(s) == Len(s) = 4 /\ \A i \in 1..4 : s[i] \in Digit

IsYYYY_YYYY(s) ==
  /\ Len(s) = 9
  /\ s[5] = Hyphen
  /\ IsYYYY(SubSeq(s, 1, 4))
  /\ IsYYYY(SubSeq(s, 6, 9))

IsYYYY_YY(s) ==
  /\ Len(s) = 7
  /\ s[5] = Hyphen
  /\ IsYYYY(SubSeq(s, 1, 4))
  /\ s[6] \in Digit
  /\ s[7] \in Digit

ContractForm(s) == s # Null /\ (IsYYYY_YYYY(s) \/ IsYYYY_YY(s) \/ IsYYYY(s))

ContractEndYear(s) ==
  IF IsYYYY_YYYY(s) THEN decimalValue(SubSeq(s, 6, 9), 0)
  ELSE IF IsYYYY_YY(s) THEN 2000 + decimalValue(SubSeq(s, 6, 7), 0)
  ELSE decimalValue(s, 0) + 1

\* the day number (days since 1970-01-01) of December 31, from the calendar
ContractDec31Day(y) ==
  CASE y = 2022 -> 19357 [] y = 2023 -> 19722 [] y = 2024 -> 20088
    [] y = 2025 -> 20453 [] y = 2026 -> 20818 [] y = 2027 -> 21183
    [] y = 2028 -> 21549

ContractDaysPast(s, ref) == (ref \div 24) - ContractDec31Day(ContractEndYear(s))

ActiveClass == "Operating/Active"

ContractStatus(daysPast) ==
  IF daysPast <= -90 THEN ActiveClass
  ELSE IF daysPast <= 0 THEN ExpiringSoon
  ELSE IF daysPast <= 365 THEN ForRenewal
  ELSE Closed

\* the status a label stands for
StatusClass(label) == IF label \in {Operating, Operational} THEN ActiveClass ELSE label

\* the school year the latest getStatus call was given
LastSchoolYear == permits[last.idx].schoolYear

\* the reference date of the latest call, while it is fresh
LastReference == IF last.now # NoDate THEN last.now[1] ELSE clock

StatusOps == {"getStatus", "test_getStatus"}

OverallOps == {"getOverallSchoolStatus", "test_getOverallSchoolStatus"}

\* C1: for every school-year string of a contract form and every reference
\* date, getStatus returns Operating/Active when daysPast <= -90, Expiring Soon
\* when -90 < daysPast <= 0, For Renewal when 0 < daysPast <= 365 and Closed
\* when daysPast > 365, daysPast being the whole days from December 31 of the
\* end year to the reference date
C1_StatusByDaysPast ==
  (fresh /\ last.op = "getStatus" /\ ContractForm(LastSchoolYear))
    => StatusClass(last.result)
         = ContractStatus(ContractDaysPast(LastSchoolYear, LastReference))

\* C2: "YYYY-YYYY" parses to the second year, "YYYY-YY" to 2000 + YY, a bare
\* "YYYY" to YYYY + 1, and the expiration date is December 31 of that year
C2_EndYearRules ==
  (last.op = "getStatus" /\ ContractForm(LastSchoolYear))
    => /\ last.endYear = <<ContractEndYear(LastSchoolYear)>>
       /\ DateDec31(last.endYear[1])
            = 24 * ContractDec31Day(ContractEndYear(LastSchoolYear))

\* a school year that does not begin with a number: empty, absent, non-numeric
NoLeadingNumber(s) == s \in {Null, <<>>} \/ isNaN(parseInt(s))

EndYearOf(s) ==
  IF ContractForm(s) THEN <<ContractEndYear(s)>> ELSE getStatusEndYearOn[s]

ParsedEndYears(ps) ==
  {EndYearOf(ps[i].schoolYear)[1] :
     i \in {j \in 1..Len(ps) : EndYearOf(ps[j].schoolYear) # NaN}}

\* two consecutive values of the sorted end years differ by more than 1
ContractHasGap(ps) ==
  \E a, b \in ParsedEndYears(ps) :
    /\ b - a > 1
    /\ \A c \in ParsedEndYears(ps) : ~(a < c /\ c < b)

\* C5: if the sorted end years have a gap greater than 1 the overall status is
\* Closed, whatever the latest permit alone classifies as
C5_GapIsClosed ==
  (fresh /\ last.op = "getOverallSchoolStatus" /\ ContractHasGap(permits))
    => last.result = Closed

\* C6: without a gap, the overall status of a non-empty permit list is the
\* status of a permit with the greatest parsed end year at the same date
C6_OverallIsLatest ==
  (/\ fresh
   /\ last.op = "getOverallSchoolStatus"
   /\ ParsedEndYears(permits) # {}
   /\ ~ContractHasGap(permits))
    => \E i \in 1..Len(permits) :
         /\ EndYearOf(permits[i].schoolYear) # NaN
         /\ \A y \in ParsedEndYears(permits) :
              y <= EndYearOf(permits[i].schoolYear)[1]
         /\ last.result = getStatusOn[permits[i].schoolYear, clock]

\* C7: two getStatus calls with the same school year and the same reference
\* date return the same status, whatever the host clock reads at each call
C7_PureInArguments ==
  [][(/\ last.op \in StatusOps
      /\ last'.op = last.op
      /\ permits'[last'.idx].schoolYear = permits[last.idx].schoolYear
      /\ last'.now = last.now)
       => last'.result = last.result]_vars

(***************************************************************************)
(* Permit extraction: the contract of extractPermits                       *)
(***************************************************************************)
\* the (permitNumber, schoolYear) pair of an entry
Pair(p) == <<p.permitNumber, p.schoolYear>>

ExtractOps == {"extractPermitDetails", "app_extractPermitDetails"}

\* every match of the direct compact family from the match m on, none
\* suppressed
RECURSIVE directAll(_, _)
directAll(t, m) ==
  IF ~m.ok THEN <<>>
  ELSE directPermit(t, m, <<>>) \o directAll(t, exec(directRegex, t, m.end))

\* the matches of a cleaned text in scan order: the formal grants, then the
\* second family, then the direct compact matches, in text order within a
\* family, each with the levels and strands inferred for it
ScanOrderOf(t) ==
  whileExec(grRegex, "gr", t, exec(grRegex, t, 1),
    whileExec(gpRegex, "gp", t, exec(gpRegex, t, 1), <<>>))
    \o directAll(t, exec(directRegex, t, 1))

ScanOrder(text) == ScanOrderOf(cleanOCRText(text))

\* a pair occurs more than once in the list
SharedPair(list) ==
  \E i, j \in 1..Len(list) : i < j /\ Pair(list[i]) = Pair(list[j])

\* the first entry of the list with the pair pr
FirstWithPair(list, pr) ==
  list[CHOOSE i \in 1..Len(list) :
         Pair(list[i]) = pr /\ \A j \in 1..(i - 1) : Pair(list[j]) # pr]

\* C8: the list returned by extractPermitDetails, in either version, has no
\* two elements with the same (permitNumber, schoolYear) pair
C8_NoSharedPair ==
  out.op \in ExtractOps =>
    \A i, j \in 1..Len(out.permits) :
      Pair(out.permits[i]) = Pair(out.permits[j]) => i = j

\* the matches of the text share a pair and the result is one entry, that
\* of the first match
CollapsedToFirst(result, matches) ==
  /\ SharedPair(matches)
  /\ Len(result) = 1
  /\ Pair(result[1]) = Pair(matches[1])

\* C8: a text in which the same permit number and year are matched twice
\* has been extracted, and the pair has one entry
C8_Witness ==
  /\ out.op = "extractPermitDetails"
  /\ doc # <<>>
  /\ CollapsedToFirst(out.permits, ScanOrder(doc))

\* every entry of result is the first of the matches with its pair
EachIsFirstMatch(result, matches) ==
  \A i \in 1..Len(result) :
    /\ \E k \in 1..Len(matches) : Pair(matches[k]) = Pair(result[i])
    /\ result[i] = FirstWithPair(matches, Pair(result[i]))

\* C9: every entry returned by extractPermitDetails is the first match in
\* scan order with its (permitNumber, schoolYear) pair, with exactly the
\* levels and strands inferred for that match
C9_FirstInScanOrder ==
  out.op = "extractPermitDetails" => EachIsFirstMatch(out.permits, ScanOrder(doc))

\* the first two matches share a pair and differ in levels and strands, and
\* the result is the first of them alone, unchanged
FirstOfTwoKept(result, matches) ==
  /\ Len(matches) >= 2
  /\ Pair(matches[1]) = Pair(matches[2])
  /\ matches[1].levels # matches[2].levels
  /\ matches[1].strands # matches[2].strands
  /\ result = <<matches[1]>>
  /\ result[1].levels = <<Kindergarten>>
  /\ result[1].strands = <<>>

\* C9: a formal grant and a match of the second family share a pair and
\* differ in levels and in strands, and the entry returned is the formal
\* grant's, although it comes later in the text
C9_Witness ==
  /\ out.op = "extractPermitDetails"
  /\ doc = Page_GR_K123_SeniorHigh_ABM \o <<" ">> \o Page_GP_K123 \o <<" ">>
  /\ FirstOfTwoKept(out.permits, ScanOrder(doc))

\* s begins with the characters of prefix, letter case aside
BeginsWith(s, prefix) ==
  Len(s) >= Len(prefix) /\ upper(SubSeq(s, 1, Len(prefix))) = prefix

\* the level a recognized permit-number prefix implies, <<>> without one
ImpliedLevels(pNum) ==
  IF BeginsWith(pNum, <<"K", "-">>) THEN <<Kindergarten>>
  ELSE IF BeginsWith(pNum, <<"E", "-">>) THEN <<Elementary>>
  ELSE IF BeginsWith(pNum, <<"S", "-">>) \/ BeginsWith(pNum, <<"J", "H", "S", "-">>)
  THEN <<JuniorHigh>>
  ELSE IF BeginsWith(pNum, <<"S", "H", "S", "-">>) THEN <<SeniorHigh>>
  ELSE <<>>

\* C10: every permit returned by extractPermitDetails whose permitNumber
\* begins with a recognized prefix has exactly the level the prefix implies
C10_PrefixDeterminesLevel ==
  out.op = "extractPermitDetails" =>
    \A i \in 1..Len(out.permits) :
      ImpliedLevels(out.permits[i].permitNumber) # <<>> =>
        out.permits[i].levels = ImpliedLevels(out.permits[i].permitNumber)

(***************************************************************************)
(* The renewal workflow of test_status.js                                  *)
(***************************************************************************)
\* the school years of the permits are all of a contract form
AllContractForm(ps) == \A i \in 1..Len(ps) : ContractForm(ps[i].schoolYear)

\* the greatest end year of the permits, by the contract's rules
LatestEndYear(ps) ==
  CHOOSE y \in {ContractEndYear(ps[i].schoolYear) : i \in 1..Len(ps)} :
    \A i \in 1..Len(ps) : ContractEndYear(ps[i].schoolYear) <= y

\* the permits are one permit and a second one for the school year that
\* immediately follows, and the first alone is For Renewal on the reference
\* date of the latest call
RenewedOnReference ==
  /\ fresh
  /\ last.op = "test_getOverallSchoolStatus"
  /\ Len(permits) = 2
  /\ AllContractForm(permits)
  /\ ContractEndYear(permits[2].schoolYear)
       = ContractEndYear(permits[1].schoolYear) + 1
  /\ test_getOverallSchoolStatusOn[<<permits[1]>>][last.now, clock] = ForRenewal

\* C14: when the only permit is For Renewal on a reference date and a permit
\* for the immediately following school year is added, the overall status on
\* the same date is the status of the added permit, not For Renewal, and it is
\* Operational when the date is at least 90 days before its December 31
C14_RenewalWorkflow ==
  RenewedOnReference =>
    /\ last.result = test_getStatusOn[permits[2].schoolYear, last.now, clock]
    /\ last.result # ForRenewal
    /\ ContractDaysPast(permits[2].schoolYear, LastReference) <= -90
         => last.result = Operational

\* C14: the simulation of test_status.js: 2024-2025, then 2025-2026 added,
\* classified on 2026-02-04
C14_Witness ==
  /\ RenewedOnReference
  /\ permits = <<[schoolYear |-> SY_2024_2025], [schoolYear |-> SY_2025_2026]>>
  /\ last.now = <<T_2026_02_04>>
  /\ last.result = Operational

\* C15: for permits without a gap, the overall status is not For Renewal when
\* the reference date is December 31 of the latest end year and it is For
\* Renewal when the reference date is the following day
C15_RenewalByTimeAlone ==
  (/\ fresh
   /\ last.op = "test_getOverallSchoolStatus"
   /\ permits # <<>>
   /\ AllContractForm(permits)
   /\ ~ContractHasGap(permits))
    => /\ LastReference \div 24 = ContractDec31Day(LatestEndYear(permits))
            => last.result # ForRenewal
       /\ LastReference \div 24 = ContractDec31Day(LatestEndYear(permits)) + 1
            => last.result = ForRenewal

\* C15: the host clock alone has reached January 1 after the latest end
\* year, the permits being those of the simulation
C15_Witness ==
  /\ fresh
  /\ last.op = "test_getOverallSchoolStatus"
  /\ last.now = NoDate
  /\ clock = T_2027_01_01
  /\ permits = <<[schoolYear |-> SY_2024_2025], [schoolYear |-> SY_2025_2026]>>
  /\ last.result = ForRenewal

(***************************************************************************)
(* Permit extraction: strands                                              *)
(***************************************************************************)
\* C19: for every permit returned by extractPermitDetails, in either version,
\* a non-empty strands list implies that Senior High School is among the
\* levels of the permit
C19_StrandsOnlyWithSeniorHigh ==
  out.op \in ExtractOps =>
    \A i \in 1..Len(out.permits) :
      out.permits[i].strands # <<>> => includes(out.permits[i].levels, SeniorHigh)

\* C19: a Kindergarten permit extracted from a text that names a strand
\* within the strand window has no strands
C19_Witness ==
  /\ out.op = "extractPermitDetails"
  /\ doc = Page_GP_K123 \o <<" ">> \o Page_SeniorHigh_STEM \o <<" ">>
  /\ Len(out.permits) = 1
  /\ out.permits[1].levels = <<Kindergarten>>
  /\ out.permits[1].strands = <<>>

(***************************************************************************)
(* The parser functions called directly                                    *)
(***************************************************************************)
\* the latest call was extractSchoolInfoFromText and it returned a result
ReturnedSchoolInfo ==
  out.op = "extractSchoolInfoFromText" /\ "schoolName" \in DOMAIN out.value

\* C11: cleanOCRText and extractSchoolInfoFromText never throw, whatever the
\* argument, a value that is no string included, and return the empty string,
\* respectively an empty name and address, for an empty or absent argument
C11_NeverThrows ==
  /\ out.op = "cleanOCRText" =>
       /\ out.value # TypeError
       /\ Falsy(doc) => out.value = <<>>
  /\ out.op = "extractSchoolInfoFromText" =>
       /\ "thrown" \notin DOMAIN out.value
       /\ Falsy(doc) => out.value = [schoolName |-> <<>>, address |-> <<>>]

\* C12: cleanOCRText applied to its own result returns that result
C12_Idempotent ==
  (out.op = "cleanOCRText" /\ doc \notin NonStrings)
    => cleanOCRText(out.value) = out.value

\* the candidate of the first strategy, in the order 1 to 4, that finds an
\* accepted candidate in the cleaned text
FirstAccepted(cleanText) ==
  IF \A k \in 1..4 : nameStrategy(k, cleanText) = <<>> THEN <<>>
  ELSE nameStrategy(CHOOSE k \in 1..4 :
                      /\ nameStrategy(k, cleanText) # <<>>
                      /\ \A j \in 1..(k - 1) : nameStrategy(j, cleanText) = <<>>,
                    cleanText)

C20_NoSignatoryPhrase ==
  ReturnedSchoolInfo =>
    ~includesText(out.value.schoolName,
                  <<"R","e","g","i","o","n","a","l"," ","D","i","r","e","c","t","o","r">>)

(***************************************************************************)
(* The trash workflow of the server                                        *)
(***************************************************************************)
InTrashStamped(rows, id) ==
  \E r \in rows : r.id = id /\ r.deleted = 1 /\ r.deletedAt # NoDate

Lists(rows, id) == \E r \in rows : r.id = id

\* C16: once DELETE /api/schools/:id has been served for a school of the
\* database, GET /api/trash lists the school and every permit whose schoolId
\* is the school, each with a deletedAt timestamp, and neither GET
\* /api/schools nor GET /api/permits lists any of them
C16_SoftDeleteMovesToTrash ==
  (last.op = "DELETE /api/schools/:id" /\ Lists(db.schools, last.id)) =>
    /\ InTrashStamped(getTrash(db).schools, last.id)
    /\ ~Lists(getSchools(db), last.id)
    /\ \A p \in db.permits :
         p.schoolId = last.id =>
           /\ InTrashStamped(getTrash(db).permits, p.id)
           /\ ~Lists(getPermits(db), p.id)

\* an active school with an active permit and a permit already in the trash
\* has been soft-deleted
C16_Witness ==
  /\ last.op = "DELETE /api/schools/:id"
  /\ \E r \in last.rows.schools : r.deleted = 0
  /\ \E p \in last.rows.permits : p.deleted = 0
  /\ \E p \in last.rows.permits : p.deleted = 1
  /\ \E p \in db.permits : p.schoolId = last.id

\* C17: once POST /api/restore/school/:id has been served for a school of
\* the trash, GET /api/schools lists the school, GET /api/permits lists the
\* permits that went to the trash with it (same schoolId, same deletedAt),
\* and GET /api/trash lists none of them
C17_RestoreBringsBack ==
  (last.op = "POST /api/restore/:type/:id" /\ last.type = "school") =>
    \A s \in last.rows.schools :
      s.deleted = 1 =>
        /\ Lists(getSchools(db), s.id)
        /\ ~Lists(getTrash(db).schools, s.id)
        /\ \A p \in last.rows.permits :
             (p.deleted = 1 /\ p.deletedAt = s.deletedAt) =>
               /\ Lists(getPermits(db), p.id)
               /\ ~Lists(getTrash(db).permits, p.id)

\* a school was restored from the trash together with a permit that had gone
\* there with it
C17_Witness ==
  /\ last.op = "POST /api/restore/:type/:id"
  /\ last.type = "school"
  /\ \E s \in last.rows.schools :
       /\ s.deleted = 1
       /\ \E p \in last.rows.permits : p.deleted = 1 /\ p.deletedAt = s.deletedAt
  /\ \E p \in getPermits(db) : p.schoolId = last.id

\* C18: DELETE /api/trash/:type/:id removes only rows of the trash: every
\* school and permit that was active when the request arrived is still in
\* the database once it has been served
C18_OnlyTrashIsRemoved ==
  last.op = "DELETE /api/trash/:type/:id" =>
    /\ \A s \in last.rows.schools : s.deleted = 0 => Lists(db.schools, s.id)
    /\ \A p \in last.rows.permits : p.deleted = 0 => Lists(db.permits, p.id)

(***************************************************************************)
(* The institution draft and the normalizer                                *)
(***************************************************************************)
\* the whitespace-separated tokens of a string
tokens(s) == SelectSeq(split(s, WhiteSpace), LAMBDA piece : piece # <<>>)

\* C21: the address extractSchoolInfoFromText returns is empty or has at
\* least three whitespace-separated tokens
C21_AddressHasThreeTokens ==
  ReturnedSchoolInfo =>
    \/ out.value.address = <<>>
    \/ Len(tokens(out.value.address)) >= 3

\* the substitutions of a table in the opposite order
reversed(table) == [i \in 1..Len(table) |-> table[Len(table) + 1 - i]]

\* the substitutions of a table, the first k moved behind the others
rotated(table, k) ==
  [i \in 1..Len(table) |-> table[((i + k - 1) % Len(table)) + 1]]

Orders ==
  {reversed(cleanTable)} \cup {rotated(cleanTable, k) : k \in 1..(Len(cleanTable) - 1)}

CleanedText ==
  out.op = "cleanOCRText" /\ doc \notin NonStrings /\ doc # <<>>

\* C22: the substitutions of cleanOCRText give the same text in whatever
\* order they are applied (here: in the opposite order, and with any number
\* of the leading substitutions moved to the end)
C22_OrderIndependent ==
  CleanedText => \A order \in Orders : applyTable(doc, order) = out.value

Horizontal == {" ", "\t"}

lineBreaks(s) == Len(SelectSeq(s, LAMBDA c : c = "\n"))

\* C23: the text cleanOCRText returns has no two consecutive horizontal
\* whitespace characters, and as many line breaks as its argument
C23_WhitespaceCollapsed ==
  CleanedText =>
    /\ \A i \in 1..(Len(out.value) - 1) :
         ~(out.value[i] \in Horizontal /\ out.value[i + 1] \in Horizontal)
    /\ lineBreaks(out.value) = lineBreaks(doc)

(***************************************************************************)
(* The geocoding contract                                                  *)
(***************************************************************************)
GeoStatuses ==
  {"SUCCESS", "VALIDATION_FAILURE", "NO_MATCH", "LOW_CONFIDENCE", "SYSTEM_ERROR"}

GenericRegions ==
  {"locality", "administrative_area_level_1", "administrative_area_level_2",
   "country"}

\* the first result of a fulfilled lookup is precise and no generic region
PreciseFirstResult(answer) ==
  /\ answer.ok
  /\ "results" \in DOMAIN answer.data
  /\ Len(answer.data.results) > 0
  /\ answer.data.results[1].geometry.location_type \in {"ROOFTOP", "RANGE_INTERPOLATED"}
  /\ \A i \in 1..Len(answer.data.results[1].types) :
       answer.data.results[1].types[i] \notin GenericRegions

\* C24: a call of resolveLocation returns a response and never throws; its
\* coordinates are non-null only with SUCCESS; SUCCESS is returned only
\* after a lookup whose first result is ROOFTOP or RANGE_INTERPOLATED and
\* has no generic-region type; every other status comes with null
\* coordinates and confidence 0; VALIDATION_FAILURE is returned without any
\* lookup
C24_GeoContract ==
  geo.call.made =>
    /\ "status" \in DOMAIN geo.call.result
    /\ geo.call.result.status \in GeoStatuses
    /\ (geo.call.result.latitude # Null \/ geo.call.result.longitude # Null) =>
         geo.call.result.status = "SUCCESS"
    /\ geo.call.result.status = "SUCCESS" =>
         geo.call.lookups = 1 /\ PreciseFirstResult(geo.call.answer)
    /\ geo.call.result.status # "SUCCESS" =>
         /\ geo.call.result.latitude = Null
         /\ geo.call.result.longitude = Null
         /\ geo.call.result.confidence_score = 0
    /\ geo.call.result.status = "VALIDATION_FAILURE" => geo.call.lookups = 0

\* a lookup answered with a ROOFTOP result that is a generic region, and the
\* call returned LOW_CONFIDENCE
C24_Witness ==
  /\ geo.call.made
  /\ geo.call.lookups = 1
  /\ geo.call.result.status = "LOW_CONFIDENCE"
  /\ geo.call.answer.ok
  /\ geo.call.answer.data.results[1].geometry.location_type = "ROOFTOP"

\* C25: the geo columns of the stored school are those POST /api/schools
\* writes for the name and the address it stores now (the lookup being the
\* mock, which depends on the query alone)
C25_GeoFollowsAddress ==
  (geo.school.stored /\ ~geo.env.apiKey) =>
    geo.school =
      insertedSchool(geo.school.name, geo.school.address,
        resolveLocationOn[geo.school.name, geo.school.address, geo.env].result)

(***************************************************************************)
(* Consistency of the classifier                                           *)
(***************************************************************************)
\* C26: for a list of exactly one permit the overall status is the status of
\* that permit at the same reference date, in either version of the
\* classifier
C26_SinglePermitAgrees ==
  (fresh /\ Len(permits) = 1) =>
    /\ last.op = "getOverallSchoolStatus" =>
         last.result = getStatusOn[permits[1].schoolYear, clock]
    /\ last.op = "test_getOverallSchoolStatus" =>
         last.result = test_getStatusOn[permits[1].schoolYear, last.now, clock]

\* the place of a status in the order Operational, Expiring Soon, For
\* Renewal, Closed; Operating is the Operational of App.vue
statusRank(label) ==
  CASE label \in {Operational, Operating} -> 1
    [] label = ExpiringSoon -> 2
    [] label = ForRenewal -> 3
    [] label = Closed -> 4
    [] OTHER -> 0

\* C27: the status getStatus returns for a school year at a reference date
\* is no earlier, in the order Operational, Expiring Soon, For Renewal,
\* Closed, than the status it returns for the same school year at any
\* earlier date (the reference date is the argument of test_status.js, the
\* host clock for App.vue)
C27_StatusNeverMovesBack ==
  /\ (last.op = "test_getStatus" /\ last.now # NoDate) =>
       \A t \in Times :
         t <= last.now[1] =>
           statusRank(test_getStatusOn[permits[last.idx].schoolYear, <<t>>, clock])
             <= statusRank(last.result)
  /\ (last.op = "test_getStatus" /\ last.now = NoDate /\ fresh) =>
       \A t \in Times :
         t <= clock =>
           statusRank(test_getStatusOn[permits[last.idx].schoolYear, <<t>>, clock])
             <= statusRank(last.result)
  /\ (last.op = "getStatus" /\ fresh) =>
       \A t \in Times :
         t <= clock =>
           statusRank(getStatusOn[permits[last.idx].schoolYear, t])
             <= statusRank(last.result)

\* a school year is Closed at the reference date of the call and was
\* Operational, Expiring Soon and For Renewal at earlier dates
C27_Witness ==
  /\ last.op = "test_getStatus"
  /\ last.now # NoDate
  /\ last.result = Closed
  /\ \A label \in {Operational, ExpiringSoon, ForRenewal} :
       \E t \in Times :
         /\ t < last.now[1]
         /\ test_getStatusOn[permits[last.idx].schoolYear, <<t>>, clock] = label

\* every match of the loose family of App.vue from the match m on, none
\* suppressed
RECURSIVE app_looseAll(_, _)
app_looseAll(t, m) ==
  IF ~m.ok THEN <<>>
  ELSE app_loosePermit(t, m, <<>>) \o app_looseAll(t, exec(app_looseRegex, t, m.end))

\* the matches of the pattern families of App.vue in scan order
app_ScanOrderOf(t) ==
  whileExec(app_grRegex, "gr", t, exec(app_grRegex, t, 1),
    whileExec(app_gpRegex, "gp", t, exec(app_gpRegex, t, 1), <<>>))
    \o app_looseAll(t, exec(app_looseRegex, t, 1))

app_ScanOrder(text) == app_ScanOrderOf(trim(replace(text, reSpaces, <<" ">>)))

\* every pair of the matches has exactly one entry in result
EachPairOnce(result, matches) ==
  \A k \in 1..Len(matches) :
    Cardinality({i \in 1..Len(result) : Pair(result[i]) = Pair(matches[k])}) = 1

\* C28: every distinct (permitNumber, schoolYear) pair matched by a pattern
\* family appears exactly once in the list extractPermitDetails returns, in
\* either version: two matches that differ in permitNumber or in schoolYear
\* are never collapsed into one entry
C28_DistinctPairsKept ==
  /\ (out.op = "extractPermitDetails" /\ doc # <<>>) =>
       EachPairOnce(out.permits, ScanOrder(doc))
  /\ (out.op = "app_extractPermitDetails" /\ doc # <<>>) =>
       EachPairOnce(out.permits, app_ScanOrder(doc))

\* C29: after any sequence of completed create, soft-delete, restore and
\* permanent-delete requests, every active permit belongs to a school that
\* exists and is active
C29_ActivePermitHasActiveSchool ==
  \A p \in getPermits(db) : \E s \in getSchools(db) : s.id = p.schoolId

\* the rows of before that are no more in after
removed(before, after) ==
  [schools |-> before.schools \ after.schools,
   permits |-> before.permits \ after.permits]

\* C30: a run of the auto cleanup removes only rows that are soft-deleted
\* and whose deletedAt is more than 15 days before the run: never an active
\* permit or school, nor one in the trash for less than 15 days
C30_CleanupRemovesOldTrashOnly ==
  last.op = "auto cleanup" =>
    /\ \A r \in removed(last.rows, db).schools :
         olderThan(r, last.now[1] - CleanupDays * msPerDay)
    /\ \A r \in removed(last.rows, db).permits :
         olderThan(r, last.now[1] - CleanupDays * msPerDay)

====
